---- MODULE Spec2Model ----
(***************************************************************************)
(* A model of McpHub (src/src/services/mcp/InMemoryMcpServer.ts): the hub  *)
(* that owns the list of MCP connections of the three configuration        *)
(* sources "project", "global" and "memory", reconciles it against         *)
(* configuration snapshots, restarts and refreshes connections, and calls  *)
(* tools on them.                                                          *)
(*                                                                         *)
(* A server configuration is a JavaScript object; it is modelled as a      *)
(* TLA+ record whose DOMAIN is the set of keys the object has, so that     *)
(* fast-deep-equal on two objects is equality of the two records.          *)
(* Every async method is cut at the awaits that wait for I/O (closing or   *)
(* starting a transport, the handshake, a request, a file read, a delay);  *)
(* the code between two such awaits is one step.                           *)
(***************************************************************************)
EXTENDS Integers, Sequences, FiniteSets, TLC

(***************************************************************************)
(* Bounds of the model.                                                    *)
(***************************************************************************)
\* the number of hub operations that may be in flight at the same time
MaxProcs == 2
\* the number of lines a server writes to its stderr
MaxOutputs == 150
\* the longest time, in ms, that passes in one step of the clock
TickMs == 100
\* the number of clients that register with the hub at one time
MaxClients == 2
\* the number of errors a transport reports on one connection
MaxLogged == 2

(***************************************************************************)
(* Program constants.                                                      *)
(***************************************************************************)
\* BaseConfigSchema: timeout ... .default(600)
DefaultTimeout == 600

\* appendErrorMessage: "Keep only the last 100 errors"
MaxErrorHistory == 100
\* debounceConfigChange: setTimeout(..., 500)
DebounceMs == 500
\* appendErrorMessage: const MAX_ERROR_LENGTH = 1000
MaxErrorLength == 1000

Procs == 1..MaxProcs

Names == {"a", "b"}
FileSources == {"global", "project"}
Sources == {"project", "global", "memory"}
\* the optional source argument left out
NoSource == "none"
FileCool == "file-cool"
\* the tools a server may advertise
Tools == {"t1"}

\* cwd default of the stdio schema: the workspace folder
DefaultCwd == "ws"

(***************************************************************************)
(* Server configurations.                                                  *)
(***************************************************************************)
Has(cfg, k) == k \in DOMAIN cfg

\* { ...defaults, ...cfg }: the keys of cfg win
Merge(cfg, defaults) == cfg @@ defaults

\* the object with only the keys in ks
Pick(cfg, ks) == [k \in (DOMAIN cfg) \cap ks |-> cfg[k]]

BaseKeys == {"disabled", "timeout", "alwaysAllow", "watchPaths", "disabledTools"}
StdioKeys == BaseKeys \cup {"type", "command", "args", "cwd", "env"}
UrlKeys == BaseKeys \cup {"type", "url", "headers"}

\* BaseConfigSchema: timeout, when given, is a number in [1, 3600]
BaseOk(cfg) == Has(cfg, "timeout") => (cfg.timeout >= 1 /\ cfg.timeout <= 3600)

BaseDefaults == [timeout |-> DefaultTimeout, alwaysAllow |-> <<>>, disabledTools |-> <<>>]

\* the first member of the union: a stdio config
StdioSchemaOk(cfg) ==
    /\ BaseOk(cfg)
    /\ Has(cfg, "command") /\ cfg.command # ""
    /\ Has(cfg, "type") => cfg.type = "stdio"
    /\ ~Has(cfg, "url") /\ ~Has(cfg, "headers")

StdioSchemaOut(cfg) ==
    [type |-> "stdio"] @@ Merge(Pick(cfg, StdioKeys), BaseDefaults @@ [cwd |-> DefaultCwd])

\* the second and third members: an sse or a streamable-http config
UrlSchemaOk(cfg, type) ==
    /\ BaseOk(cfg)
    /\ Has(cfg, "url")
    /\ Has(cfg, "type") => cfg.type = type
    /\ ~Has(cfg, "command") /\ ~Has(cfg, "args") /\ ~Has(cfg, "env")

UrlSchemaOut(cfg, type) == [type |-> type] @@ Merge(Pick(cfg, UrlKeys), BaseDefaults)

\* ServerConfigSchema.safeParse: the first member of the union that accepts
SchemaOk(cfg) ==
    StdioSchemaOk(cfg) \/ UrlSchemaOk(cfg, "sse") \/ UrlSchemaOk(cfg, "streamable-http")

SchemaParse(cfg) ==
    IF StdioSchemaOk(cfg) THEN StdioSchemaOut(cfg)
    ELSE IF UrlSchemaOk(cfg, "sse") THEN UrlSchemaOut(cfg, "sse")
    ELSE UrlSchemaOut(cfg, "streamable-http")

\* validateServerConfig writes config.type = "stdio" into its argument when
\* the type is missing and there is a command (and the mixed-fields check
\* has passed): the object the caller holds afterwards
InferType(cfg) ==
    IF Has(cfg, "command") /\ ~Has(cfg, "url") /\ ~Has(cfg, "type")
    THEN [type |-> "stdio"] @@ cfg
    ELSE cfg

\* the checks of validateServerConfig before the schema, on the config with
\* the inferred type
PreChecksOk(cfg) ==
    LET hasStdioFields == Has(cfg, "command")
        hasUrlFields == Has(cfg, "url")
        c == InferType(cfg)
    IN /\ ~(hasStdioFields /\ hasUrlFields)
       /\ ~(hasUrlFields /\ ~Has(c, "type"))
       /\ Has(c, "type") => c.type \in {"stdio", "sse", "streamable-http"}
       /\ (Has(c, "type") /\ c.type = "stdio") => hasStdioFields
       /\ (Has(c, "type") /\ c.type \in {"sse", "streamable-http"}) => hasUrlFields
       /\ hasStdioFields \/ hasUrlFields

\* validateServerConfig: does it return (TRUE) or throw (FALSE)
ValidateOk(cfg) == PreChecksOk(cfg) /\ SchemaOk(InferType(cfg))

\* validateServerConfig: the validated config it returns
validateServerConfig(cfg) == SchemaParse(InferType(cfg))

\* injectVariables replaces ${env:..} and ${workspaceFolder} references; the
\* configurations of this model hold none
injectVariables(cfg) == cfg

(***************************************************************************)
(* The configurations and snapshots the operations are called with.        *)
(***************************************************************************)
\* { "command": "echo" }: every defaulted field left out
CfgMin == [command |-> "echo"]

\* a stdio config with every defaulted field written out, args ["1"]
CfgArgs1 ==
    [type |-> "stdio", command |-> "echo", args |-> <<"1">>, cwd |-> DefaultCwd,
     timeout |-> DefaultTimeout, alwaysAllow |-> <<>>, disabledTools |-> <<>>,
     watchPaths |-> <<"w">>]

\* the same with "disabled": true
CfgOff == [disabled |-> TRUE] @@ CfgArgs1

\* stdio and url fields mixed
CfgMixed == [command |-> "x", url |-> "y"]

RawCfgs == {CfgMin, CfgArgs1, CfgMixed}

\* a snapshot: Record<string, config>, over the names in ns
SnapshotsOver(ns, cfgs) == UNION {[S -> cfgs] : S \in SUBSET ns}

EntryOrder == <<"a", "b">>

\* Object.entries(newServers) / Object.keys: the names of the snapshot in order
Entries(snap) == SelectSeq(EntryOrder, LAMBDA n : n \in DOMAIN snap)

(***************************************************************************)
(* The state of the hub.                                                   *)
(***************************************************************************)
VARIABLES
    connections,     \* McpHub.connections: the array of McpConnection
    isConnecting,    \* McpHub.isConnecting
    fileWatchers,    \* McpHub.fileWatchers: <<name, source>> of each watcher
    memoryServerToolStates,     \* McpHub.memoryServerToolStates
    memoryServerDisabledStates, \* McpHub.memoryServerDisabledStates
    lastCall,        \* the last callTool or readResource and what came of it
    mcpSettings,     \* the mcpServers object of the global and of the project
                     \* settings file, as the hub reads and writes single
                     \* entries of it; each file holds the server a when the
                     \* hub is made
    timers,          \* the timers of debounceConfigChange that are set:
                     \* <<source, ms until it fires>> of each
    refCount,        \* McpHub.refCount
    isDisposed,      \* McpHub.isDisposed
    proc,            \* the hub operations in flight and where each stands
    transports,      \* the two InMemoryTransport of createInMemoryTransportPair:
                     \* 1 is clientTransport, 2 is serverTransport
    immediates,      \* the callbacks given to setImmediate, in their order
    inMemoryServer,  \* an InMemoryFileCoolServer and the callers of its connect
    condensed        \* the last call of summarizeConversation and its response

vars ==
    <<connections, isConnecting, fileWatchers, memoryServerToolStates,
      memoryServerDisabledStates, lastCall, mcpSettings, timers, refCount,
      isDisposed, proc, transports, immediates, inMemoryServer, condensed>>

memVars == <<memoryServerToolStates, memoryServerDisabledStates>>

clientVars == <<refCount, isDisposed>>

inMemoryVars == <<transports, immediates, inMemoryServer, condensed>>

\* an operation slot that runs nothing
Idle ==
    [op |-> "idle", pc |-> "idle", src |-> NoSource, manage |-> FALSE,
     cfgs |-> <<>>, pend |-> <<>>, todo |-> <<>>,
     name |-> "", csrc |-> NoSource, vcfg |-> <<>>,
     after |-> "", ret |-> "", outer |-> "", acts |-> <<>>,
     rem |-> {}, unch |-> {}, chg |-> {}, was |-> <<>>]

Range(s) == {s[i] : i \in DOMAIN s}

First(S) == IF S = {} THEN 0 ELSE CHOOSE i \in S : \A j \in S : i <= j

\* Array.prototype.filter
Filter(conns, keep(_)) == SelectSeq(conns, keep)

\* The array is kept in one order of (source, name): no method of the hub
\* tells the order of two connections that differ in source or name
\* (find and filter go by name and source, the list sent to the webview is
\* sorted).  Connections of one name and source keep the order of their push.
\* The order chosen is the reverse of the priority of the sources, so that
\* the first connection of a name in the array is the one of least priority.
SourceRank(source) == CASE source = "memory" -> 0 [] source = "global" -> 1 [] OTHER -> 2

NameRank(name) == CASE name = "a" -> 0 [] name = "b" -> 1 [] OTHER -> 2

KeyLeq(c, d) ==
    \/ SourceRank(c.source) < SourceRank(d.source)
    \/ SourceRank(c.source) = SourceRank(d.source) /\ NameRank(c.name) <= NameRank(d.name)

\* this.connections.push(connection)
Push(conns, c) ==
    LET before == {i \in DOMAIN conns : KeyLeq(conns[i], c)}
        k == Cardinality(before)
    IN SubSeq(conns, 1, k) \o <<c>> \o SubSeq(conns, k + 1, Len(conns))

\* indices of the connections with that name and source
Matches(conns, name, source) ==
    {i \in DOMAIN conns : conns[i].name = name /\ conns[i].source = source}

\* a faulty variant of findConnection: global before project
findConnectionGlobalFirst(conns, name, source) ==
    IF source # NoSource
    THEN First(Matches(conns, name, source))
    ELSE IF Matches(conns, name, "global") # {}
         THEN First(Matches(conns, name, "global"))
         ELSE IF Matches(conns, name, "project") # {}
              THEN First(Matches(conns, name, "project"))
              ELSE First(Matches(conns, name, "memory"))

\* findConnection: the index of the connection found, 0 for undefined
findConnection(conns, name, source) ==
    IF source # NoSource
    THEN First(Matches(conns, name, source))
    ELSE IF Matches(conns, name, "project") # {}
         THEN First(Matches(conns, name, "project"))
         ELSE IF Matches(conns, name, "global") # {}
              THEN First(Matches(conns, name, "global"))
              ELSE First(Matches(conns, name, "memory"))

\* the index of the connection object operation p made and still holds, 0
\* if it left the array
OwnIdx(conns, p) == First({i \in DOMAIN conns : conns[i].owner = p})

\* deleteConnection, the list it closes: connections.filter(name [and source])
deleteList(conns, name, source) ==
    IF source # NoSource
    THEN Matches(conns, name, source)
    ELSE {i \in DOMAIN conns : conns[i].name = name}

\* a faulty variant of deleteFilter: the source is not looked at
deleteFilterAnySource(conns, name, source) ==
    Filter(conns, LAMBDA c : c.name # name)

\* deleteConnection, the array it leaves
deleteFilter(conns, name, source) ==
    LET keep(c) == \/ c.name # name
                   \/ (source # NoSource /\ c.source # source)
    IN Filter(conns, keep)

\* a faulty variant of appendErrorMessage: the oldest entries are kept
appendErrorMessageKeepOldest(conns, i, msg) ==
    LET truncatedError == IF Len(msg) > MaxErrorLength
                          THEN SubSeq(msg, 1, MaxErrorLength) \o "...(error message truncated)"
                          ELSE msg
        h == Append(conns[i].errorHistory, truncatedError)
    IN IF i = 0 THEN conns
       ELSE [conns EXCEPT ![i].errorHistory =
                              IF Len(h) > MaxErrorHistory
                              THEN SubSeq(h, 1, MaxErrorHistory) ELSE h,
                          ![i].error = truncatedError]

\* a faulty variant of appendErrorMessage: the message is stored whole
appendErrorMessageWhole(conns, i, msg) ==
    LET h == Append(conns[i].errorHistory, msg)
    IN IF i = 0 THEN conns
       ELSE [conns EXCEPT ![i].errorHistory =
                              IF Len(h) > MaxErrorHistory
                              THEN SubSeq(h, Len(h) - MaxErrorHistory + 1, Len(h)) ELSE h,
                          ![i].error = msg]

\* appendErrorMessage on the connection at index i (0: no connection): a
\* message of more than MAX_ERROR_LENGTH characters is cut to its first 1000
\* and gets the suffix; the message is pushed, the history cut to its last
\* 100 entries, and connection.server.error set to the message
appendErrorMessage(conns, i, msg) ==
    LET truncatedError == IF Len(msg) > MaxErrorLength
                          THEN SubSeq(msg, 1, MaxErrorLength) \o "...(error message truncated)"
                          ELSE msg
        h == Append(conns[i].errorHistory, truncatedError)
    IN IF i = 0 THEN conns
       ELSE [conns EXCEPT ![i].errorHistory =
                              IF Len(h) > MaxErrorHistory
                              THEN SubSeq(h, Len(h) - MaxErrorHistory + 1, Len(h)) ELSE h,
                          ![i].error = truncatedError]

SetStatus(conns, i, status) ==
    IF i = 0 THEN conns ELSE [conns EXCEPT ![i].status = status]

\* timeout: the timeout in ms the request is sent with, 0 when none is given;
\* result: what the request ended with, "" while it is pending
NoCall == [op |-> "", name |-> "", source |-> NoSource, found |-> NoSource,
           disabled |-> FALSE, error |-> "", request |-> "", timeout |-> 0,
           result |-> ""]

\* the tools a server advertises, flagged from the two lists
FlagTools(advertised, alwaysAllowConfig, disabledToolsList) ==
    {[name |-> t, alwaysAllow |-> t \in alwaysAllowConfig,
      enabledForPrompt |-> t \notin disabledToolsList] : t \in advertised}

\* connectToServer: the McpConnection it pushes
NewConnection(p, name, source, configInjected) ==
    [owner |-> p, name |-> name, source |-> source, config |-> configInjected,
     status |-> "connecting",
     disabled |-> Has(configInjected, "disabled") /\ configInjected.disabled,
     errorHistory |-> <<>>, error |-> "", tools |-> {}, open |-> TRUE]

\* setupFileWatcher: the watchers map afterwards
setupFileWatcher(watchers, name, config, source) ==
    IF source = "memory" THEN watchers
    ELSE IF config.type = "stdio" /\ Has(config, "watchPaths") /\ Len(config.watchPaths) > 0
         THEN watchers \cup {<<name, source>>}
         ELSE watchers

(***************************************************************************)
(* updateServerConnections(newServers, source, manageConnectingState).     *)
(***************************************************************************)
\* connections.filter(source): the connections the reconciliation looks at
currentConnections(conns, source) ==
    Filter(conns, LAMBDA c : c.source # "memory" /\ c.source = source)

\* the names of the current connections, in order, each once
RECURSIVE NamesInOrder(_)
NamesInOrder(conns) ==
    IF conns = <<>> THEN <<>>
    ELSE LET rest == NamesInOrder(Tail(conns))
         IN <<Head(conns).name>>
                \o SelectSeq(rest, LAMBDA n : n # Head(conns).name)

\* a faulty variant of removedNames: no name is taken as removed
removedNamesNone(conns, snap, source) == <<>>

\* "Delete removed servers": the current names absent from the snapshot
removedNames(conns, snap, source) ==
    SelectSeq(NamesInOrder(currentConnections(conns, source)),
              LAMBDA n : n \notin DOMAIN snap)

\* where the loop over the entries goes on: the next entry, or the final
\* notifyWebviewOfServerChanges
LoopPc(todo) == IF todo = <<>> THEN "u_notify" ELSE "u_loop"

FirstUpdatePc(conns, snap, source) ==
    IF removedNames(conns, snap, source) # <<>> THEN "u_del" ELSE LoopPc(Entries(snap))

\* What the run starts from, kept to state what it should do: the names of
\* the snapshot whose one connection holds the validated config already
UnchangedNames(conns, snap, source) ==
    {n \in DOMAIN snap :
        /\ ValidateOk(snap[n])
        /\ Cardinality(Matches(conns, n, source)) = 1
        /\ conns[findConnection(conns, n, source)].config
               = injectVariables(validateServerConfig(snap[n]))}

\* the names of the snapshot whose one connection holds another config
ChangedNames(conns, snap, source) ==
    {n \in DOMAIN snap :
        /\ ValidateOk(snap[n])
        /\ Cardinality(Matches(conns, n, source)) = 1
        /\ conns[findConnection(conns, n, source)].config
               # injectVariables(validateServerConfig(snap[n]))}

\* up to the first await of updateServerConnections.  Called by
\* initializeMcpServers for refreshAllConnections, the run of the global
\* file is followed by the project file, and that by the memory servers.
BeginUpdate(p, snap, source, manage) ==
    /\ proc[p].pc \in {"idle", "a_init", "k_update"}
    /\ isConnecting' = (IF manage THEN TRUE ELSE isConnecting)
    /\ fileWatchers' = {}
    /\ proc' = [proc EXCEPT ![p] =
                  [Idle EXCEPT !.op = "update",
                               !.outer = IF proc[p].pc # "a_init" THEN ""
                                         ELSE IF source = "global" THEN "project"
                                         ELSE "memory",
                               !.was = proc[p].was,
                               !.pc = FirstUpdatePc(connections, snap, source),
                               !.src = source,
                               !.manage = manage, !.cfgs = snap,
                               !.pend = removedNames(connections, snap, source),
                               !.todo = Entries(snap),
                               !.rem = Range(removedNames(connections, snap, source)),
                               !.unch = UnchangedNames(connections, snap, source),
                               !.chg = ChangedNames(connections, snap, source)]]
    /\ UNCHANGED <<connections, memVars, lastCall, mcpSettings, clientVars, inMemoryVars>>

\* a call of updateServerConnections that no timer made: initializeMcpServers,
\* deleteServer, refreshAllConnections
StartUpdate(p, snap, source, manage) ==
    /\ proc[p].op = "idle"
    /\ BeginUpdate(p, snap, source, manage)
    /\ UNCHANGED timers

\* a faulty variant of debounceConfigChange: the timer of the key is not cleared
debounceNoClear(source) ==
    /\ timers' = timers \cup {<<source, DebounceMs>>}
    /\ UNCHANGED <<connections, isConnecting, fileWatchers, memVars, lastCall, mcpSettings, clientVars, inMemoryVars, proc>>

\* debounceConfigChange(filePath, source): the timer of the key (each of the
\* two sources has one settings file) is cleared and set again
debounceConfigChange(source) ==
    /\ timers' = {t \in timers : t[1] # source} \cup {<<source, DebounceMs>>}
    /\ UNCHANGED <<connections, isConnecting, fileWatchers, memVars, lastCall, mcpSettings, clientVars, inMemoryVars, proc>>

\* time passes: at most TickMs, and not beyond the moment a timer is due
Tick ==
    LET d == CHOOSE d \in {TickMs} \cup {t[2] : t \in timers} :
                 \A e \in {TickMs} \cup {t[2] : t \in timers} : d <= e
    IN /\ timers # {}
       /\ d > 0
       /\ timers' = {<<t[1], t[2] - d>> : t \in timers}
       /\ UNCHANGED <<connections, isConnecting, fileWatchers, memVars, lastCall, mcpSettings, clientVars, inMemoryVars, proc>>

\* the timer fires: handleConfigFileChange reads and parses the file, whose
\* servers are those of snap, and calls updateServerConnections
TimerFired(p, snap, source) ==
    /\ <<source, 0>> \in timers
    /\ proc[p].op = "idle"
    /\ timers' = timers \ {<<source, 0>>}
    /\ IF \A n \in DOMAIN snap : SchemaOk(snap[n])
       THEN BeginUpdate(p, [n \in DOMAIN snap |-> SchemaParse(snap[n])], source, TRUE)
       ELSE UNCHANGED <<connections, isConnecting, fileWatchers, memVars, lastCall,
                        mcpSettings, clientVars, inMemoryVars, proc>>

(***************************************************************************)
(* deleteConnection(name, source): close the listed connections, then      *)
(* (after the awaits) filter the array; connectToServer.                   *)
(***************************************************************************)
\* connectToServer after its own deleteConnection: the client and the
\* transport are made.  A stdio transport is started and awaited before the
\* connection is pushed; the others are pushed at once, and the handshake
\* is awaited.
CreateTransport(p, pr, conns) ==
    LET cfg == injectVariables(pr.vcfg)
        log == Append(pr.acts, <<"create", pr.name>>)
    IN IF cfg.type = "stdio"
       THEN /\ connections' = conns
            /\ proc' = [proc EXCEPT ![p] = [pr EXCEPT !.pc = "c_start", !.acts = log]]
       ELSE /\ connections' = Push(conns, NewConnection(p, pr.name, pr.csrc, cfg))
            /\ proc' = [proc EXCEPT ![p] = [pr EXCEPT !.pc = "c_connect", !.acts = log]]

\* the first half of deleteConnection(name, source), up to the await of the
\* first close; `after` is where the caller goes on.  With nothing to close
\* the filter runs at once.
BeginDelete(p, pr, name, source, after) ==
    LET list == deleteList(connections, name, source)
    IN IF list = {}
       THEN IF after = "c_create"
            THEN CreateTransport(p, pr, deleteFilter(connections, name, source))
            ELSE /\ connections' = deleteFilter(connections, name, source)
                 /\ proc' = [proc EXCEPT ![p] = [pr EXCEPT !.pc = after]]
       ELSE /\ connections' =
                   [i \in DOMAIN connections |->
                       IF i \in list THEN [connections[i] EXCEPT !.open = FALSE]
                       ELSE connections[i]]
            /\ proc' = [proc EXCEPT ![p] =
                          [pr EXCEPT !.pc = "del_filter", !.name = name,
                                     !.csrc = source, !.after = after,
                                     !.acts = Append(pr.acts, <<"delete", name>>)]]

\* the second half: this.connections = this.connections.filter(...), and on
\* to what follows the call
DeleteFilter(p) ==
    LET conns == deleteFilter(connections, proc[p].name, proc[p].csrc)
        pr == [proc[p] EXCEPT !.after = ""]
    IN /\ proc[p].pc = "del_filter"
       /\ IF proc[p].after = "c_create"
          THEN CreateTransport(p, pr, conns)
          ELSE /\ connections' = conns
               /\ proc' = [proc EXCEPT ![p] = [pr EXCEPT !.pc = proc[p].after]]
       /\ UNCHANGED <<isConnecting, fileWatchers, memVars, lastCall, mcpSettings, clientVars, inMemoryVars, timers>>

\* "Delete removed servers": the next removed name
UpdateDelete(p) ==
    /\ proc[p].op = "update" /\ proc[p].pc = "u_del"
    /\ proc[p].pend # <<>>
    /\ BeginDelete(p, [proc[p] EXCEPT !.pend = Tail(@)], Head(proc[p].pend), proc[p].src,
                   IF Tail(proc[p].pend) = <<>> THEN LoopPc(proc[p].todo) ELSE "u_del")
    /\ UNCHANGED <<isConnecting, fileWatchers, memVars, lastCall, mcpSettings, clientVars, inMemoryVars, timers>>

\* deepEqual(JSON.parse(currentConnection.server.config), config): config is
\* the entry of the snapshot, as validateServerConfig left it
SameConfig(stored, config) == stored = InferType(config)

\* a faulty variant of AfterInvalid: a failed validation ends the loop
AfterInvalidBreak(todo) == <<>>

\* the entries still to reconcile after one failed validation ("continue")
AfterInvalid(todo) == Tail(todo)

\* "Update or add servers": the next entry of the snapshot
UpdateEntry(p) ==
    LET pr == proc[p]
        n == Head(pr.todo)
        config == pr.cfgs[n]
        cur == findConnection(connections, n, pr.src)
        validated == validateServerConfig(config)
        call == [pr EXCEPT !.todo = Tail(@), !.name = n, !.csrc = pr.src,
                           !.vcfg = validated, !.ret = LoopPc(Tail(pr.todo))]
    IN /\ pr.op = "update" /\ pr.pc = "u_loop"
       /\ IF ~ValidateOk(config)
          THEN /\ proc' = [proc EXCEPT ![p] =
                             [pr EXCEPT !.todo = AfterInvalid(pr.todo),
                                        !.pc = LoopPc(AfterInvalid(pr.todo)),
                                        !.acts = Append(pr.acts, <<"invalid", n>>)]]
               /\ UNCHANGED <<connections, fileWatchers>>
          ELSE IF cur = 0 \/ ~SameConfig(connections[cur].config, config)
          THEN /\ fileWatchers' = setupFileWatcher(fileWatchers, n, validated, pr.src)
               /\ BeginDelete(p, call, n, pr.src, "c_create")
          ELSE /\ proc' = [proc EXCEPT ![p] =
                             [pr EXCEPT !.todo = Tail(@), !.pc = LoopPc(Tail(pr.todo)),
                                        !.acts = Append(pr.acts, <<"same", n>>)]]
               /\ UNCHANGED <<connections, fileWatchers>>
       /\ UNCHANGED <<isConnecting, memVars, lastCall, mcpSettings, clientVars, inMemoryVars, timers>>

\* the catch block of connectToServer: the connection found by name and
\* source is marked disconnected and gets the error; the error is thrown on
ConnectFailed(conns, name, source) ==
    LET i == findConnection(conns, name, source)
    IN appendErrorMessage(SetStatus(conns, i, "disconnected"), i, "connect error")

\* the connection object leaves the scope of the operation that made it
Release(conns, p) ==
    [i \in DOMAIN conns |-> IF conns[i].owner = p THEN [conns[i] EXCEPT !.owner = 0]
                            ELSE conns[i]]

\* connectToServer returns or throws: every caller catches and goes on
ConnectReturn(pr) ==
    [pr EXCEPT !.pc = pr.ret, !.ret = "", !.name = "", !.csrc = NoSource, !.vcfg = <<>>]

\* await transport.start() of a stdio transport ended
ConnectStarted(p, ok) ==
    LET pr == proc[p]
    IN /\ pr.pc = "c_start"
       /\ IF ok
            THEN /\ connections' = Push(connections,
                        NewConnection(p, pr.name, pr.csrc, injectVariables(pr.vcfg)))
                 /\ proc' = [proc EXCEPT ![p].pc = "c_connect"]
            ELSE /\ connections' = ConnectFailed(connections, pr.name, pr.csrc)
                 /\ proc' = [proc EXCEPT ![p] = ConnectReturn(pr)]
       /\ UNCHANGED <<isConnecting, fileWatchers, memVars, lastCall, mcpSettings, clientVars, inMemoryVars, timers>>

\* await client.connect(transport) ended
ConnectHandshake(p, ok) ==
    LET pr == proc[p]
        conns1 == SetStatus(connections, OwnIdx(connections, p), "connected")
        found == findConnection(conns1, pr.name, pr.csrc)
    IN /\ pr.pc = "c_connect"
       /\ IF ~ok
            THEN /\ connections' = Release(ConnectFailed(connections, pr.name, pr.csrc), p)
                 /\ proc' = [proc EXCEPT ![p] = ConnectReturn(pr)]
            ELSE IF found = 0
                 THEN /\ connections' = Release(conns1, p)
                      /\ proc' = [proc EXCEPT ![p] = ConnectReturn(pr)]
                      ELSE /\ connections' = conns1
                      /\ proc' = [proc EXCEPT ![p].pc = "c_fetch"]
       /\ UNCHANGED <<isConnecting, fileWatchers, memVars, lastCall, mcpSettings, clientVars, inMemoryVars, timers>>

\* fetchToolsList, the two lists.  For a global or project server they are
\* read from the server's entry in the configuration file, which holds what
\* the connection was made from; for a memory server they are the saved
\* state, or without one the flags of the tools the connection has.
ToolLists(conns, states, name, source, config) ==
    IF source # "memory"
    THEN [alwaysAllow |->
              IF Has(config, "alwaysAllow") THEN Range(config.alwaysAllow) ELSE {},
          disabledTools |->
              IF Has(config, "disabledTools") THEN Range(config.disabledTools) ELSE {}]
    ELSE IF name \in DOMAIN states
    THEN states[name]
    ELSE LET i == findConnection(conns, name, source)
             existingTools == IF i = 0 THEN {} ELSE conns[i].tools
         IN [alwaysAllow |-> {t.name : t \in {u \in existingTools : u.alwaysAllow}},
             disabledTools |->
                 {t.name : t \in {u \in existingTools : ~u.enabledForPrompt}}]

\* a request on the client of the connection found is answered only while
\* the connection is open: close() rejects what is pending
Answers(conns, name, source) ==
    LET i == findConnection(conns, name, source)
    IN i # 0 /\ conns[i].open

\* what fetchToolsList gets of the tools the server advertises
Fetched(conns, name, source, advertised) ==
    IF Answers(conns, name, source) THEN advertised ELSE {}

\* the capability lists arrived (or the requests failed: empty lists)
ConnectFetched(p, advertised) ==
    LET pr == proc[p]
        own == OwnIdx(connections, p)
        lists == ToolLists(connections, memoryServerToolStates, pr.name, pr.csrc, pr.vcfg)
    IN /\ pr.pc = "c_fetch"
       /\ connections' =
                Release(IF own = 0 THEN connections
                        ELSE [connections EXCEPT ![own].tools =
                                 FlagTools(Fetched(connections, pr.name, pr.csrc,
                                                   advertised),
                                           lists.alwaysAllow, lists.disabledTools)], p)
       /\ proc' = [proc EXCEPT ![p] = ConnectReturn(pr)]
       /\ UNCHANGED <<isConnecting, fileWatchers, memVars, lastCall, mcpSettings, clientVars, inMemoryVars, timers>>

\* await notifyWebviewOfServerChanges() ended: it reads the settings files,
\* and throws when the global one cannot be read or parsed.
\* initializeMcpServers catches what is thrown, and refreshAllConnections
\* goes on with the project file or the memory servers.
UpdateNotified(p, ok) ==
    LET pr == proc[p]
    IN /\ pr.op = "update" /\ pr.pc = "u_notify"
       /\ isConnecting' = (IF ok /\ pr.manage THEN FALSE ELSE isConnecting)
       /\ proc' = [proc EXCEPT ![p] =
                     IF pr.outer = "" THEN Idle
                     ELSE [Idle EXCEPT !.op = "refreshAll", !.was = pr.was,
                                       !.src = pr.outer,
                                       !.pc = IF pr.outer = "memory" THEN "m_start"
                                              ELSE "a_init"]]
       /\ UNCHANGED <<connections, fileWatchers, memVars, lastCall, mcpSettings, clientVars, inMemoryVars, timers>>

(***************************************************************************)
(* restartConnection(serverName, source).                                  *)
(***************************************************************************)
\* up to the first await.  The provider is a WeakRef: deref() may give
\* undefined.
StartRestart(p, serverName, source, provider) ==
    LET i == findConnection(connections, serverName, source)
    IN /\ proc[p].op = "idle"
       /\ source # "memory"
       /\ isConnecting' = TRUE
       /\ IF ~provider
          THEN UNCHANGED <<connections, proc>>
          ELSE IF i = 0
          THEN /\ proc' = [proc EXCEPT ![p] =
                             [Idle EXCEPT !.op = "restart", !.pc = "r_notify"]]
               /\ UNCHANGED connections
          ELSE /\ connections' = [connections EXCEPT ![i].status = "connecting",
                                                     ![i].error = ""]
               /\ proc' = [proc EXCEPT ![p] =
                             [Idle EXCEPT !.op = "restart", !.pc = "r_delay",
                                          !.name = serverName,
                                          !.csrc = connections[i].source,
                                          !.vcfg = connections[i].config,
                                          !.ret = "r_notify"]]
       /\ UNCHANGED <<fileWatchers, memVars, lastCall, mcpSettings, clientVars, inMemoryVars, timers>>

\* the first notifyWebviewOfServerChanges and the delay of 500 ms ended;
\* then deleteConnection and, with the validated config, connectToServer
RestartDelayed(p, ok) ==
    LET pr == proc[p]
    IN /\ pr.op = "restart" /\ pr.pc = "r_delay"
       /\ IF ~ok
            THEN /\ proc' = [proc EXCEPT ![p] = Idle]
                 /\ UNCHANGED connections
            ELSE IF ValidateOk(pr.vcfg)
                 THEN BeginDelete(p, [pr EXCEPT !.vcfg = validateServerConfig(pr.vcfg)],
                                  pr.name, pr.csrc, "c_create")
                 ELSE BeginDelete(p, pr, pr.name, pr.csrc, "r_notify")
       /\ UNCHANGED <<isConnecting, fileWatchers, memVars, lastCall, mcpSettings, clientVars, inMemoryVars, timers>>

\* the last notifyWebviewOfServerChanges ended
RestartNotified(p, ok) ==
    LET pr == proc[p]
    IN /\ pr.op = "restart" /\ pr.pc = "r_notify"
       /\ isConnecting' = (IF ok THEN FALSE ELSE isConnecting)
       /\ proc' = [proc EXCEPT ![p] = Idle]
       /\ UNCHANGED <<connections, fileWatchers, memVars, lastCall, mcpSettings, clientVars, inMemoryVars, timers>>

(***************************************************************************)
(* The reconciliation of the global and the project configuration, one     *)
(* operation at a time.                                                    *)
(***************************************************************************)
\* an InMemoryTransport as its constructor leaves it: not started, not closed,
\* no peer (0 is null), the three listeners of _eventEmitter registered.
\* onmessage and onclose are set by the client or server that owns the
\* transport; received lists the messages given to onmessage, onclose counts
\* the calls of onclose, starts the calls of start() that returned, sent the
\* messages whose send() returned with whether the peer was closed then,
\* thrown is the error of the last call ("" when it returned)
NewTransport ==
    [isStarted |-> FALSE, isClosed |-> FALSE, peer |-> 0, listeners |-> TRUE,
     received |-> <<>>, onclose |-> 0, starts |-> 0, sent |-> <<>>, thrown |-> ""]

\* the callers of connect() of one InMemoryFileCoolServer
MaxCallers == 3

\* an InMemoryFileCoolServer as its constructor leaves it: initializeServer is
\* started and not awaited, ready is false, no client; pairs counts the
\* transport pairs made by connect, call[c] is where the c-th caller of
\* connect() stands and what it got
NewServer ==
    [ready |-> FALSE, initialization |-> "pending", fetched |-> "", client |-> 0, pairs |-> 0,
     call |-> [c \in 1..MaxCallers |-> [pc |-> "idle", result |-> ""]]]

\* summarizeConversation not called yet: the arguments of a call, what the
\* stream of createMessage and countTokens gave it, and its SummarizeResponse
NoCondense ==
    [called |-> FALSE, messages |-> <<>>, apiHandler |-> "valid", condensingApiHandler |-> "none",
     prevContextTokens |-> 0,
     stream |-> [text |-> "", totalCost |-> 0, outputTokens |-> 0, throws |-> FALSE],
     counted |-> 0,
     response |-> [messages |-> <<>>, cost |-> 0, summary |-> ""]]

Init ==
    /\ connections = <<>>
    /\ isConnecting = FALSE
    /\ fileWatchers = {}
    /\ memoryServerToolStates = <<>>
    /\ memoryServerDisabledStates = <<>>
    /\ lastCall = NoCall
    /\ mcpSettings = [source \in FileSources |-> [n \in {"a"} |-> CfgMin]]
    /\ timers = {}
    /\ refCount = 0
    /\ isDisposed = FALSE
    /\ proc = [p \in Procs |-> Idle]
    /\ transports = [e \in 1..2 |-> NewTransport]
    /\ immediates = <<>>
    /\ inMemoryServer = NewServer
    /\ condensed = NoCondense

\* the snapshots of the global file are over a and b, those of the project
\* file over a
Reconcile(p) ==
    \/ \E snap \in SnapshotsOver(Names, RawCfgs), manage \in BOOLEAN : StartUpdate(p, snap, "global", manage)
    \/ \E snap \in SnapshotsOver({"a"}, RawCfgs), manage \in BOOLEAN : StartUpdate(p, snap, "project", manage)
    \/ UpdateDelete(p)
    \/ DeleteFilter(p)
    \/ UpdateEntry(p)
    \/ \E ok \in BOOLEAN : ConnectStarted(p, ok)
    \/ \E ok \in BOOLEAN : ConnectHandshake(p, ok)
    \/ \E advertised \in {{}, Tools} : ConnectFetched(p, advertised)
    \/ \E ok \in BOOLEAN : UpdateNotified(p, ok)
    \/ \E n \in Names, source \in FileSources \cup {NoSource}, provider \in BOOLEAN :
          StartRestart(p, n, source, provider)
    \/ \E ok \in BOOLEAN : RestartDelayed(p, ok)
    \/ \E ok \in BOOLEAN : RestartNotified(p, ok)

Next == Reconcile(1)

Spec == Init /\ [][Next]_vars

(***************************************************************************)
(* Operations that overlap: the global file has the one server a, its      *)
(* changes go through the debounce timer, and a watched path of a restarts *)
(* it.                                                                     *)
(***************************************************************************)
Connect(p) ==
    \/ DeleteFilter(p)
    \/ \E ok \in BOOLEAN : ConnectStarted(p, ok)
    \/ \E ok \in BOOLEAN : ConnectHandshake(p, ok)
    \/ \E advertised \in {{}, Tools} : ConnectFetched(p, advertised)


(***************************************************************************)
(* The in-memory servers: initializeInMemoryFileCoolServer,                *)
(* refreshInMemoryServers, and the calls that go to a connection.          *)
(***************************************************************************)
\* the indices of the connections of source "memory"
memoryConnections(conns) == {i \in DOMAIN conns : conns[i].source = "memory"}

\* the name -> tools map of the memory connections; of two connections of
\* one name the later in the array is the one that stays in a Map
LastMemory(conns, n) ==
    CHOOSE i \in memoryConnections(conns) :
        /\ conns[i].name = n
        /\ \A j \in memoryConnections(conns) : conns[j].name = n => j <= i

MemoryNames(conns) == {conns[i].name : i \in memoryConnections(conns)}

\* a faulty variant of saveMemoryServerToolStates: the lists are left empty
saveMemoryServerToolStatesEmpty(conns, states) ==
    [n \in DOMAIN states \cup MemoryNames(conns) |->
        [alwaysAllow |-> {}, disabledTools |-> {}]]

\* saveMemoryServerToolStates, the tool states it leaves (its loop runs
\* before its first await)
saveMemoryServerToolStates(conns, states) ==
    [n \in DOMAIN states \cup MemoryNames(conns) |->
        IF n \in MemoryNames(conns)
        THEN LET tools == conns[LastMemory(conns, n)].tools
             IN [alwaysAllow |-> {t.name : t \in {u \in tools : u.alwaysAllow}},
                 disabledTools |-> {t.name : t \in {u \in tools : ~u.enabledForPrompt}}]
        ELSE states[n]]

\* saveMemoryServerToolStates, the disabled states it leaves
saveMemoryServerDisabledStates(conns, states) ==
    [n \in DOMAIN states \cup MemoryNames(conns) |->
        IF n \in MemoryNames(conns) THEN conns[LastMemory(conns, n)].disabled
        ELSE states[n]]

\* restoreMemoryServerToolStates
restoreMemoryServerToolStates(conns, states) ==
    [i \in DOMAIN conns |->
        IF conns[i].source = "memory" /\ conns[i].name \in DOMAIN states
        THEN [conns[i] EXCEPT !.tools =
                 {[name |-> t.name,
                   alwaysAllow |-> t.name \in states[conns[i].name].alwaysAllow,
                   enabledForPrompt |-> t.name \notin states[conns[i].name].disabledTools]
                    : t \in conns[i].tools}]
        ELSE conns[i]]

\* the config initializeStreamableHttpGatewayServers makes for a server
GatewayConfig(states, serverName) ==
    [type |-> "streamable-http", url |-> "gw", headers |-> "key",
     disabled |-> IF serverName \in DOMAIN states THEN states[serverName] ELSE TRUE,
     timeout |-> DefaultTimeout, alwaysAllow |-> <<>>, disabledTools |-> <<>>]

\* a faulty variant of FileCoolConnection: the saved state is not looked at
FileCoolConnectionForgets(p, states) ==
    [owner |-> p, name |-> FileCool, source |-> "memory",
     config |-> [type |-> "stdio", command |-> "in-memory"],
     status |-> "connected", disabled |-> FALSE,
     errorHistory |-> <<>>, error |-> "", tools |-> {}, open |-> TRUE]

\* the connection initializeInMemoryFileCoolServer pushes
FileCoolConnection(p, states) ==
    [owner |-> p, name |-> FileCool, source |-> "memory",
     config |-> [type |-> "stdio", command |-> "in-memory"],
     status |-> "connected",
     disabled |-> IF FileCool \in DOMAIN states THEN states[FileCool] ELSE FALSE,
     errorHistory |-> <<>>, error |-> "", tools |-> {}, open |-> TRUE]

\* what the settings of the gateway are when they are read: disabled; enabled
\* without URL or key; enabled with both, the gateway listing the server a
GatewayModes == {"off", "plain", "gateway"}

\* initializeInMemoryFileCoolServer returned (it catches what is thrown):
\* its caller goes on.  refreshInMemoryServers and refreshAllConnections
\* restore the tool states.
MemoryReturn(p, pr, conns) ==
    IF pr.op \in {"refresh", "refreshAll"}
    THEN /\ connections' = restoreMemoryServerToolStates(conns, memoryServerToolStates)
         /\ proc' = [proc EXCEPT ![p] =
                       [pr EXCEPT !.pc = IF pr.op = "refresh" THEN "f_notify"
                                         ELSE "a_notify"]]
    ELSE /\ connections' = conns
         /\ proc' = [proc EXCEPT ![p] = Idle]

\* initializeInMemoryFileCoolServer, once provider.getState() has answered
\* (and, with URL and key, the gateway has sent its list)
MemoryStart(p, mode) ==
    LET pr == proc[p]
    IN /\ pr.pc = "m_start"
       /\ CASE mode = "off" -> MemoryReturn(p, pr, connections)
              [] mode = "plain" ->
                    /\ proc' = [proc EXCEPT ![p].pc = "m_push"]
                    /\ UNCHANGED connections
              [] mode = "gateway" ->
                    BeginDelete(p, [pr EXCEPT !.name = "a", !.csrc = "memory",
                                       !.vcfg = GatewayConfig(memoryServerDisabledStates, "a"),
                                       !.ret = "m_push"],
                                "a", "memory", "c_create")
       /\ UNCHANGED <<isConnecting, fileWatchers, memVars, lastCall, mcpSettings, clientVars, inMemoryVars, timers>>

\* await inMemoryServer.connect() ended: the connection is pushed
MemoryPush(p) ==
    /\ proc[p].pc = "m_push"
    /\ connections' = Push(connections, FileCoolConnection(p, memoryServerDisabledStates))
    /\ proc' = [proc EXCEPT ![p].pc = "m_wait"]
    /\ UNCHANGED <<isConnecting, fileWatchers, memVars, lastCall, mcpSettings, clientVars, inMemoryVars, timers>>

\* the 100 ms have passed: fetchToolsList("file-cool", "memory") sends its
\* request, or finds no connection and returns []
MemoryFetch(p) ==
    LET own == OwnIdx(connections, p)
    IN /\ proc[p].pc = "m_wait"
       /\ IF findConnection(connections, FileCool, "memory") = 0
          THEN /\ connections' = Release(connections, p)
               /\ proc' = [proc EXCEPT ![p].pc = "m_notify"]
          ELSE /\ proc' = [proc EXCEPT ![p].pc = "m_fetch"]
               /\ UNCHANGED connections
       /\ UNCHANGED <<isConnecting, fileWatchers, memVars, lastCall, mcpSettings, clientVars, inMemoryVars, timers>>

\* the answer to tools/list came (a request that failed gives [])
MemoryFetched(p, advertised) ==
    LET own == OwnIdx(connections, p)
        lists == ToolLists(connections, memoryServerToolStates, FileCool, "memory", <<>>)
    IN /\ proc[p].pc = "m_fetch"
       /\ connections' =
                Release(IF own = 0 THEN connections
                        ELSE [connections EXCEPT ![own].tools =
                                 FlagTools(Fetched(connections, FileCool, "memory",
                                                   advertised),
                                           lists.alwaysAllow, lists.disabledTools)], p)
       /\ proc' = [proc EXCEPT ![p].pc = "m_notify"]
       /\ UNCHANGED <<isConnecting, fileWatchers, memVars, lastCall, mcpSettings, clientVars, inMemoryVars, timers>>

\* notifyWebviewOfServerChanges of the initialization ended
MemoryNotified(p) ==
    /\ proc[p].pc = "m_notify"
    /\ MemoryReturn(p, proc[p], connections)
    /\ UNCHANGED <<isConnecting, fileWatchers, memVars, lastCall, mcpSettings, clientVars, inMemoryVars, timers>>

\* the names of the memory connections, in the order of the array
MemoryNamesInOrder(conns) ==
    LET mem == Filter(conns, LAMBDA c : c.source = "memory")
    IN [i \in DOMAIN mem |-> mem[i].name]

\* where refreshInMemoryServers goes on after a deleteConnection
RefreshPc(pend) == IF pend = <<>> THEN "m_start" ELSE "f_del"

\* refreshInMemoryServers up to its first await: the states are saved, the
\* memory connections listed, and the first of them is closed
StartRefresh(p) ==
    LET names == MemoryNamesInOrder(connections)
        pr == [Idle EXCEPT !.op = "refresh", !.pc = "m_start",
                           !.was = [n \in MemoryNames(connections) |->
                                       connections[LastMemory(connections, n)].tools]]
    IN /\ proc[p].op = "idle"
       /\ memoryServerToolStates' =
              saveMemoryServerToolStates(connections, memoryServerToolStates)
       /\ memoryServerDisabledStates' =
              saveMemoryServerDisabledStates(connections, memoryServerDisabledStates)
       /\ IF names = <<>>
          THEN /\ proc' = [proc EXCEPT ![p] = pr]
               /\ UNCHANGED connections
          ELSE BeginDelete(p, [pr EXCEPT !.pend = Tail(names)], Head(names), "memory",
                           RefreshPc(Tail(names)))
       /\ UNCHANGED <<isConnecting, fileWatchers, lastCall, mcpSettings, clientVars, inMemoryVars, timers>>

\* the next deleteConnection of refreshInMemoryServers
RefreshDelete(p) ==
    /\ proc[p].op = "refresh" /\ proc[p].pc = "f_del"
    /\ BeginDelete(p, [proc[p] EXCEPT !.pend = Tail(@)], Head(proc[p].pend), "memory",
                   RefreshPc(Tail(proc[p].pend)))
    /\ UNCHANGED <<isConnecting, fileWatchers, memVars, lastCall, mcpSettings, clientVars, inMemoryVars, timers>>

\* the last notifyWebviewOfServerChanges of refreshInMemoryServers ended
RefreshNotified(p) ==
    /\ proc[p].op = "refresh" /\ proc[p].pc = "f_notify"
    /\ proc' = [proc EXCEPT ![p] = Idle]
    /\ UNCHANGED <<connections, isConnecting, fileWatchers, memVars, lastCall, mcpSettings, clientVars, inMemoryVars, timers>>

(***************************************************************************)
(* refreshAllConnections.                                                  *)
(***************************************************************************)
\* up to the first await: a call while isConnecting is set returns at once;
\* else the flag is set and the states of the memory servers are saved
StartRefreshAll(p) ==
    /\ proc[p].op = "idle"
    /\ IF isConnecting
       THEN UNCHANGED <<isConnecting, memVars, proc>>
       ELSE /\ isConnecting' = TRUE
            /\ memoryServerToolStates' =
                   saveMemoryServerToolStates(connections, memoryServerToolStates)
            /\ memoryServerDisabledStates' =
                   saveMemoryServerDisabledStates(connections, memoryServerDisabledStates)
            /\ proc' = [proc EXCEPT ![p] =
                          [Idle EXCEPT !.op = "refreshAll", !.pc = "a_read",
                                       !.was = [n \in MemoryNames(connections) |->
                                                   connections[LastMemory(connections, n)].tools]]]
    /\ UNCHANGED <<connections, fileWatchers, lastCall, mcpSettings, clientVars, inMemoryVars, timers>>

\* "Clear all existing connections first": once the two files are read (for
\* the messages shown), the connections the array then holds are listed, and
\* deleteConnection is awaited for each in turn
RefreshAllDelete(p) ==
    LET pr == proc[p]
        list == IF pr.pc = "a_read"
                THEN [i \in DOMAIN connections |->
                         <<connections[i].name, connections[i].source>>]
                ELSE pr.pend
    IN /\ pr.op = "refreshAll" /\ pr.pc \in {"a_read", "a_del"}
       /\ IF list = <<>>
          THEN /\ proc' = [proc EXCEPT ![p] = [pr EXCEPT !.pc = "a_init", !.src = "global"]]
               /\ UNCHANGED connections
          ELSE BeginDelete(p, [pr EXCEPT !.pend = Tail(list), !.src = "global"],
                           Head(list)[1], Head(list)[2],
                           IF Tail(list) = <<>> THEN "a_init" ELSE "a_del")
       /\ UNCHANGED <<isConnecting, fileWatchers, memVars, lastCall, mcpSettings, clientVars, inMemoryVars, timers>>

\* initializeMcpServers(source) as refreshAllConnections calls it, for the
\* global and then the project file: the file is read and parsed (ok: it
\* can be read and holds JSON), and updateServerConnections is called with
\* the servers the schema gives, or for the global file with the raw ones
\* when the schema rejects them
RefreshAllInit(p, ok) ==
    LET pr == proc[p]
        file == mcpSettings[pr.src]
        valid == \A n \in DOMAIN file : SchemaOk(file[n])
    IN /\ pr.op = "refreshAll" /\ pr.pc = "a_init"
       /\ IF ok /\ (valid \/ pr.src = "global")
          THEN BeginUpdate(p, IF valid THEN [n \in DOMAIN file |-> SchemaParse(file[n])]
                              ELSE file, pr.src, FALSE)
          ELSE /\ proc' = [proc EXCEPT ![p] =
                             [pr EXCEPT !.src = IF pr.src = "global" THEN "project"
                                                ELSE "memory",
                                        !.pc = IF pr.src = "global" THEN "a_init"
                                               ELSE "m_start"]]
               /\ UNCHANGED <<connections, isConnecting, fileWatchers, memVars, lastCall,
                              mcpSettings, clientVars, inMemoryVars>>
       /\ UNCHANGED timers

\* the delay of 100 ms and the last notifyWebviewOfServerChanges ended, or
\* something was thrown: finally isConnecting is cleared
RefreshAllNotified(p) ==
    /\ proc[p].op = "refreshAll" /\ proc[p].pc = "a_notify"
    /\ isConnecting' = FALSE
    /\ proc' = [proc EXCEPT ![p] = Idle]
    /\ UNCHANGED <<connections, fileWatchers, memVars, lastCall, mcpSettings, clientVars, inMemoryVars, timers>>

\* updateServerToolList for a memory server: the flag of the tool and the
\* saved state
updateServerToolList(serverName, toolName, listName, addTool) ==
    LET i == findConnection(connections, serverName, "memory")
        savedState == IF serverName \in DOMAIN memoryServerToolStates
                      THEN memoryServerToolStates[serverName]
                      ELSE [alwaysAllow |-> {}, disabledTools |-> {}]
        list == IF addTool THEN savedState[listName] \cup {toolName}
                ELSE savedState[listName] \ {toolName}
        flag(t) == IF t.name # toolName THEN t
                   ELSE IF listName = "alwaysAllow" THEN [t EXCEPT !.alwaysAllow = addTool]
                   ELSE [t EXCEPT !.enabledForPrompt = ~addTool]
    IN /\ IF i = 0
          THEN UNCHANGED <<connections, memoryServerToolStates>>
          ELSE /\ connections' = [connections EXCEPT ![i].tools = {flag(t) : t \in @}]
               /\ memoryServerToolStates' =
                      (serverName :> [savedState EXCEPT ![listName] = list])
                          @@ memoryServerToolStates
       /\ UNCHANGED <<isConnecting, fileWatchers, memoryServerDisabledStates,
                      lastCall, mcpSettings, clientVars, inMemoryVars, timers, proc>>

toggleToolAlwaysAllow(serverName, toolName, shouldAllow) ==
    updateServerToolList(serverName, toolName, "alwaysAllow", shouldAllow)

toggleToolEnabledForPrompt(serverName, toolName, isEnabled) ==
    updateServerToolList(serverName, toolName, "disabledTools", ~isEnabled)

\* toggleServerDisabled of a memory server
toggleServerDisabled(serverName, disabled) ==
    LET i == findConnection(connections, serverName, "memory")
    IN /\ i # 0
       /\ connections' = [connections EXCEPT ![i].disabled = disabled]
       /\ memoryServerDisabledStates' =
              (serverName :> disabled) @@ memoryServerDisabledStates
       /\ UNCHANGED <<isConnecting, fileWatchers, memoryServerToolStates,
                      lastCall, mcpSettings, clientVars, inMemoryVars, timers, proc>>

\* a faulty variant of serverDisabled: the flag is not looked at
serverDisabledIgnored(c) == FALSE

\* if (connection.server.disabled)
serverDisabled(c) == c.disabled

\* callTool and readResource up to the request they send.  callTool parses
\* the config of the connection for its timeout (600 s when it cannot be
\* parsed) and passes it with the request; readResource passes no options.
Call(op, method, serverName, source) ==
    LET i == findConnection(connections, serverName, source)
        call == [NoCall EXCEPT !.op = op, !.name = serverName, !.source = source]
        timeout == IF op # "callTool" THEN 0
                   ELSE IF SchemaOk(connections[i].config)
                   THEN SchemaParse(connections[i].config).timeout * 1000
                   ELSE DefaultTimeout * 1000
    IN /\ lastCall' =
              IF i = 0 THEN [call EXCEPT !.error = "no connection"]
              ELSE IF serverDisabled(connections[i])
              THEN [call EXCEPT !.found = connections[i].source,
                                !.disabled = connections[i].disabled,
                                !.error = "disabled"]
              ELSE [call EXCEPT !.found = connections[i].source,
                                !.disabled = connections[i].disabled,
                                !.request = method, !.timeout = timeout]
       /\ UNCHANGED <<connections, isConnecting, fileWatchers, memVars, mcpSettings, clientVars, inMemoryVars,
                      timers, proc>>

callTool(serverName, source) == Call("callTool", "tools/call", serverName, source)

readResource(serverName, source) == Call("readResource", "resources/read", serverName, source)

\* a faulty variant of CallEnded: a call that failed is taken for a failure
\* of the connection
CallEndedDisconnects(result) ==
    LET i == findConnection(connections, lastCall.name, lastCall.source)
    IN /\ lastCall.request # "" /\ lastCall.result = ""
       /\ lastCall' = [lastCall EXCEPT !.result = result,
                                       !.error = IF result = "ok" THEN "" ELSE result]
       /\ connections' = IF result = "ok" THEN connections
                         ELSE appendErrorMessage(SetStatus(connections, i, "disconnected"),
                                                 i, result)
       /\ UNCHANGED <<isConnecting, fileWatchers, memVars, mcpSettings, clientVars, inMemoryVars, timers, proc>>

\* the request of callTool or readResource ended: `return await
\* connection.client.request(...)` gives the caller the response, or throws
\* what the client threw (the server answered with an error, the time ran
\* out)
CallEnded(result) ==
    /\ lastCall.request # "" /\ lastCall.result = ""
    /\ lastCall' = [lastCall EXCEPT !.result = result,
                                    !.error = IF result = "ok" THEN "" ELSE result]
    /\ UNCHANGED <<connections, isConnecting, fileWatchers, memVars, mcpSettings, clientVars, inMemoryVars,
                   timers, proc>>

\* The hub right after its constructor: initializeInMemoryFileCoolServer is
\* under way
InitEph ==
    /\ connections = <<>>
    /\ isConnecting = FALSE
    /\ fileWatchers = {}
    /\ memoryServerToolStates = <<>>
    /\ memoryServerDisabledStates = <<>>
    /\ lastCall = NoCall
    /\ mcpSettings = [source \in FileSources |-> [n \in {"a"} |-> CfgMin]]
    /\ timers = {}
    /\ refCount = 0
    /\ isDisposed = FALSE
    /\ proc = [p \in Procs |-> IF p = 1 THEN [Idle EXCEPT !.op = "init", !.pc = "m_start"]
                               ELSE Idle]
    /\ transports = [e \in 1..2 |-> NewTransport]
    /\ immediates = <<>>
    /\ inMemoryServer = NewServer
    /\ condensed = NoCondense

\* connectToServer with a server that answers
Connected(p) ==
    \/ DeleteFilter(p)
    \/ ConnectStarted(p, TRUE)
    \/ ConnectHandshake(p, TRUE)
    \/ ConnectFetched(p, Tools)

Refresh(p) ==
    \/ StartRefresh(p)
    \/ RefreshDelete(p)
    \/ RefreshNotified(p)

\* Refreshes that overlap, and the permissions of the tools of file-cool
\* (the gateway has no URL or key).  Permissions are granted here, not
\* withdrawn: what a refresh starts with is then to be there when it ends.
NextEph ==
    \/ \E p \in Procs :
          \/ DeleteFilter(p)
          \/ MemoryStart(p, "plain")
          \/ MemoryPush(p)
          \/ MemoryFetch(p)
          \/ MemoryFetched(p, Tools)
          \/ MemoryNotified(p)
          \/ Refresh(p)
    \/ \E t \in Tools : toggleToolAlwaysAllow(FileCool, t, TRUE)
    \/ \E t \in Tools : toggleToolEnabledForPrompt(FileCool, t, FALSE)

SpecEph == InitEph /\ [][NextEph]_vars

\* The three scopes side by side: the server a in the global file, in the
\* project file and at the gateway, one operation at a time, and the calls
\* that resolve a.
NextScopes ==
    \/ \E snap \in SnapshotsOver({"a"}, {CfgArgs1, CfgOff, [timeout |-> 30] @@ CfgArgs1}),
          source \in FileSources :
          StartUpdate(1, snap, source, TRUE)
    \/ UpdateDelete(1)
    \/ UpdateEntry(1)
    \/ UpdateNotified(1, TRUE)
    \/ Connected(1)
    \/ \E mode \in GatewayModes : MemoryStart(1, mode)
    \/ MemoryPush(1)
    \/ MemoryFetch(1)
    \/ MemoryFetched(1, Tools)
    \/ MemoryNotified(1)
    \/ \E d \in BOOLEAN : toggleServerDisabled("a", d)
    \/ \E source \in Sources \cup {NoSource} : callTool("a", source)
    \/ \E source \in Sources \cup {NoSource} : readResource("a", source)
    \/ \E result \in {"ok", "failed", "timed out"} : CallEnded(result)

SpecScopes == InitEph /\ [][NextScopes]_vars

(***************************************************************************)
(* The life of a connection: the callbacks of its transport, the discovery *)
(* of its capabilities, and the toggles of its tools.                      *)
(***************************************************************************)
\* transport.onerror: the connection found by name and source is marked
\* disconnected and gets the message
TransportError(name, source, msg) ==
    LET i == findConnection(connections, name, source)
    IN /\ \E j \in Matches(connections, name, source) : connections[j].name # FileCool
       /\ connections' = appendErrorMessage(SetStatus(connections, i, "disconnected"), i, msg)
       /\ UNCHANGED <<isConnecting, fileWatchers, memVars, lastCall, mcpSettings, clientVars, inMemoryVars, timers, proc>>

\* a faulty variant of TransportClose: the hub takes the connection up again
TransportCloseReconnects(name, source) ==
    \E j \in Matches(connections, name, source) :
        /\ connections[j].name # FileCool /\ connections[j].open
        /\ connections' = SetStatus([connections EXCEPT ![j].open = FALSE],
                                    findConnection(connections, name, source), "connecting")
        /\ UNCHANGED <<isConnecting, fileWatchers, memVars, lastCall, mcpSettings, clientVars, inMemoryVars, timers, proc>>

\* the transport of a connection closes by itself (the process exits, the
\* stream ends); transport.onclose: the connection found by name and source
\* is marked disconnected
TransportClose(name, source) ==
    \E j \in Matches(connections, name, source) :
        /\ connections[j].name # FileCool /\ connections[j].open
        /\ connections' = SetStatus([connections EXCEPT ![j].open = FALSE],
                                    findConnection(connections, name, source), "disconnected")
        /\ UNCHANGED <<isConnecting, fileWatchers, memVars, lastCall, mcpSettings, clientVars, inMemoryVars, timers, proc>>

\* stderrStream.on("data") of a stdio transport that runs: output with INFO
\* in it is logged only, any other is appended to the history of the
\* connection found by name and source
StderrData(name, source, output, isInfoLog) ==
    /\ \E i \in Matches(connections, name, source) :
           connections[i].config.type = "stdio" /\ connections[i].open
    /\ connections' =
           IF isInfoLog THEN connections
           ELSE appendErrorMessage(connections,
                                   findConnection(connections, name, source), output)
    /\ UNCHANGED <<isConnecting, fileWatchers, memVars, lastCall, mcpSettings, clientVars, inMemoryVars, timers, proc>>

\* the callbacks of a stdio transport that deleteConnection closed in a
\* restart, arriving while the restart goes on with the connection that
\* takes its place: the handlers were made with the name and the source,
\* and change the connection that findConnection gives for them
ClosedTransportCalls(p, callback, msg) ==
    LET pr == proc[p]
        i == findConnection(connections, pr.name, pr.csrc)
    IN /\ pr.op = "restart" /\ pr.pc \in {"c_connect", "c_fetch"}
       /\ <<"delete", pr.name>> \in Range(pr.acts)
       /\ pr.vcfg.type = "stdio"
       /\ connections' =
             CASE callback = "onerror" ->
                      appendErrorMessage(SetStatus(connections, i, "disconnected"), i, msg)
               [] callback = "onclose" -> SetStatus(connections, i, "disconnected")
               [] callback = "stderr" -> appendErrorMessage(connections, i, msg)
       /\ UNCHANGED <<isConnecting, fileWatchers, memVars, lastCall, mcpSettings, clientVars, inMemoryVars, timers, proc>>

\* a faulty variant of ConnectFetchFailed: the failure is taken for a failure
\* of the connection
ConnectFetchFailedFlaps(p) ==
    /\ proc[p].pc = "c_fetch"
    /\ connections' = Release(ConnectFailed(connections, proc[p].name, proc[p].csrc), p)
    /\ proc' = [proc EXCEPT ![p] = ConnectReturn(proc[p])]
    /\ UNCHANGED <<isConnecting, fileWatchers, memVars, lastCall, mcpSettings, clientVars, inMemoryVars, timers>>

\* the discovery after the handshake failed (a request timed out or was
\* rejected): fetchToolsList, fetchResourcesList and
\* fetchResourceTemplatesList catch and return []
ConnectFetchFailed(p) ==
    LET own == OwnIdx(connections, p)
    IN /\ proc[p].pc = "c_fetch"
       /\ connections' = Release(IF own = 0 THEN connections
                                 ELSE [connections EXCEPT ![own].tools = {}], p)
       /\ proc' = [proc EXCEPT ![p] = ConnectReturn(proc[p])]
       /\ UNCHANGED <<isConnecting, fileWatchers, memVars, lastCall, mcpSettings, clientVars, inMemoryVars, timers>>

\* a faulty variant of updateServerConfig: the file is left as it was
updateServerConfigNoWrite(files, serverName, configUpdate, source) == files

\* updateServerConfig: the settings files afterwards.  The update is spread
\* over the entry of the server (an empty object when there is none), and
\* alwaysAllow is put in when missing.
updateServerConfig(files, serverName, configUpdate, source) ==
    LET old == IF serverName \in DOMAIN files[source] THEN files[source][serverName]
               ELSE <<>>
        serverConfig == configUpdate @@ old
    IN [files EXCEPT ![source] =
           (serverName :> (IF Has(serverConfig, "alwaysAllow") THEN serverConfig
                           ELSE serverConfig @@ [alwaysAllow |-> <<>>])) @@ @]

\* a faulty variant of ToggleDisabledWritten: the flag of the connection is
\* set before the file is written
ToggleDisabledFlagFirst(p, serverName, source, disabled, ok) ==
    LET i == findConnection(connections, serverName, source)
        serverSource == connections[i].source
    IN /\ proc[p].op = "idle"
       /\ i # 0
       /\ serverSource # "memory"
       /\ IF ~ok
          THEN /\ lastCall' = [NoCall EXCEPT !.op = "toggleServerDisabled",
                                             !.name = serverName, !.source = source,
                                             !.found = serverSource,
                                             !.error = "write failed"]
               /\ connections' = [connections EXCEPT ![i].disabled = disabled]
               /\ UNCHANGED <<mcpSettings, proc>>
          ELSE /\ mcpSettings' = updateServerConfig(mcpSettings, serverName,
                                                    [disabled |-> disabled], serverSource)
               /\ connections' = [connections EXCEPT ![i].disabled = disabled]
               /\ proc' = IF connections[i].status # "connected" THEN proc
                          ELSE [proc EXCEPT ![p] =
                                   [Idle EXCEPT !.op = "toggle", !.pc = "t_fetch",
                                                !.name = serverName,
                                                !.csrc = serverSource]]
               /\ UNCHANGED lastCall
       /\ UNCHANGED <<isConnecting, fileWatchers, memVars, clientVars, inMemoryVars, timers>>

\* toggleServerDisabled for a server of a settings file, up to the requests
\* that refresh the capabilities: the file of the source of the connection
\* found is read and written (a failure there is thrown to the caller), the
\* flag of the connection is set, and only a connected server is asked for
\* its lists
\* When the write fails the error is thrown on to the caller, which lastCall
\* records, before anything of the connection is set.
ToggleDisabledWritten(p, serverName, source, disabled, ok) ==
    LET i == findConnection(connections, serverName, source)
        serverSource == connections[i].source
    IN /\ proc[p].op = "idle"
       /\ i # 0
       /\ serverSource # "memory"
       /\ IF ~ok
          THEN /\ lastCall' = [NoCall EXCEPT !.op = "toggleServerDisabled",
                                             !.name = serverName, !.source = source,
                                             !.found = serverSource,
                                             !.error = "write failed"]
               /\ UNCHANGED connections
               /\ UNCHANGED <<mcpSettings, proc>>
          ELSE /\ mcpSettings' = updateServerConfig(mcpSettings, serverName,
                                                    [disabled |-> disabled], serverSource)
               /\ connections' = [connections EXCEPT ![i].disabled = disabled]
               /\ proc' = IF connections[i].status # "connected" THEN proc
                          ELSE [proc EXCEPT ![p] =
                                   [Idle EXCEPT !.op = "toggle", !.pc = "t_fetch",
                                                !.name = serverName,
                                                !.csrc = serverSource]]
               /\ UNCHANGED lastCall
       /\ UNCHANGED <<isConnecting, fileWatchers, memVars, clientVars, inMemoryVars, timers>>

\* updateServerToolList for a server of a settings file, up to the request
\* of fetchToolsList: the list of the server's entry in the file (a stdio
\* entry running node is made when there is none) is changed and written
ToolListRequest(p, serverName, source, toolName, listName, addTool) ==
    LET i == findConnection(connections, serverName, source)
        entry == IF serverName \in DOMAIN mcpSettings[source]
                 THEN mcpSettings[source][serverName]
                 ELSE [type |-> "stdio", command |-> "node", args |-> <<>>]
        targetList == IF Has(entry, listName) THEN entry[listName] ELSE <<>>
        written == IF addTool /\ toolName \notin Range(targetList)
                   THEN Append(targetList, toolName)
                   ELSE IF ~addTool THEN SelectSeq(targetList, LAMBDA t : t # toolName)
                   ELSE targetList
    IN /\ proc[p].op = "idle"
       /\ source \in FileSources
       /\ i # 0
       /\ mcpSettings' = [mcpSettings EXCEPT ![source] =
                             (serverName :> ((listName :> written) @@ entry)) @@ @]
       /\ proc' = [proc EXCEPT ![p] =
                     [Idle EXCEPT !.op = "toolList", !.pc = "t_fetch",
                                  !.name = serverName, !.csrc = source]]
       /\ UNCHANGED <<connections, isConnecting, fileWatchers, memVars, lastCall, clientVars, inMemoryVars,
                      timers>>

\* the request of fetchToolsList after a write to a settings file was
\* answered, or failed (then fetchToolsList returns []): the two lists are
\* read from the entry of the server in the file, connection.server.tools
\* is set
ToolListFetched(p, advertised, ok) ==
    LET pr == proc[p]
        i == findConnection(connections, pr.name, pr.csrc)
        entry == IF pr.name \in DOMAIN mcpSettings[pr.csrc]
                 THEN mcpSettings[pr.csrc][pr.name] ELSE <<>>
        lists == ToolLists(connections, memoryServerToolStates, pr.name, pr.csrc, entry)
    IN /\ pr.op \in {"toolList", "toggle"} /\ pr.pc = "t_fetch"
       /\ connections' =
              IF i = 0 THEN connections
              ELSE [connections EXCEPT ![i].tools =
                       IF ok THEN FlagTools(Fetched(connections, pr.name, pr.csrc, advertised),
                                            lists.alwaysAllow, lists.disabledTools)
                       ELSE {}]
       /\ proc' = [proc EXCEPT ![p] = Idle]
       /\ UNCHANGED <<isConnecting, fileWatchers, memVars, lastCall, mcpSettings, clientVars, inMemoryVars, timers>>

\* The server a of the global file and file-cool, one operation at a time,
\* while the transport of a reports errors and closes
NextLife ==
    \/ MemoryStart(1, "plain")
    \/ MemoryPush(1)
    \/ MemoryFetch(1)
    \/ MemoryFetched(1, Tools)
    \/ MemoryNotified(1)
    \/ \E snap \in SnapshotsOver({"a"}, {CfgMin}) : StartUpdate(1, snap, "global", TRUE)
    \/ UpdateDelete(1)
    \/ DeleteFilter(1)
    \/ UpdateEntry(1)
    \/ UpdateNotified(1, TRUE)
    \/ \E ok \in BOOLEAN : ConnectStarted(1, ok)
    \/ \E ok \in BOOLEAN : ConnectHandshake(1, ok)
    \/ ConnectFetched(1, Tools)
    \/ ConnectFetchFailed(1)
    \/ StartRestart(1, "a", "global", TRUE)
    \/ RestartDelayed(1, TRUE)
    \/ RestartNotified(1, TRUE)
    \/ /\ \A i \in DOMAIN connections : Len(connections[i].errorHistory) < MaxLogged
       /\ TransportError("a", "global", "transport error")
    \/ TransportClose("a", "global")
    \/ ToolListRequest(1, "a", "global", "t1", "alwaysAllow", TRUE)
    \/ \E ok \in BOOLEAN : ToolListFetched(1, Tools, ok)

SpecLife == InitEph /\ [][NextLife]_vars

(***************************************************************************)
(* The toggles of a server and of its tools: file-cool is the memory       *)
(* server, a is in both settings files, which the reconciliations read.    *)
(* The user disables and enables the a that a call without source finds,   *)
(* allows the tools of the global a always or not, and grants the          *)
(* permissions of the tools of file-cool.                                  *)
(***************************************************************************)
NextToggles ==
    \/ MemoryStart(1, "plain")
    \/ MemoryPush(1)
    \/ MemoryFetch(1)
    \/ MemoryFetched(1, Tools)
    \/ MemoryNotified(1)
    \/ \E source \in FileSources : StartUpdate(1, mcpSettings[source], source, TRUE)
    \/ UpdateEntry(1)
    \/ UpdateNotified(1, TRUE)
    \/ Connected(1)
    \/ \E disabled \in BOOLEAN : toggleServerDisabled(FileCool, disabled)
    \/ \E t \in Tools : toggleToolAlwaysAllow(FileCool, t, TRUE)
    \/ \E t \in Tools : toggleToolEnabledForPrompt(FileCool, t, FALSE)
    \/ \E source \in {"project", NoSource}, disabled \in BOOLEAN, ok \in BOOLEAN :
          ToggleDisabledWritten(1, "a", source, disabled, ok)
    \/ \E t \in Tools, addTool \in BOOLEAN :
          ToolListRequest(1, "a", "global", t, "alwaysAllow", addTool)
    \/ \E ok \in BOOLEAN : ToolListFetched(1, Tools, ok)

SpecToggles == InitEph /\ [][NextToggles]_vars

\* the operations that overlap: the debounced changes of the global file,
\* the restarts of a, and refreshAllConnections
NextRace ==
    \/ debounceConfigChange("global")
    \/ Tick
    \/ \E p \in Procs :
          \/ \E snap \in SnapshotsOver({"a"}, {CfgMin}) : TimerFired(p, snap, "global")
          \/ UpdateDelete(p)
          \/ UpdateEntry(p)
          \/ Connected(p)
          \/ UpdateNotified(p, TRUE)
          \/ StartRestart(p, "a", "global", TRUE)
          \/ RestartDelayed(p, TRUE)
          \/ RestartNotified(p, TRUE)
          \/ StartRefreshAll(p)
          \/ RefreshAllDelete(p)
          \/ RefreshAllInit(p, TRUE)
          \/ MemoryStart(p, "off")
          \/ RefreshAllNotified(p)

SpecRace == Init /\ [][NextRace]_vars

(***************************************************************************)
(* The watchers of the watchPaths of a stdio server: the global file holds *)
(* a with a watched path, whose changes come while a restart may be under  *)
(* way.  The server writes to its stderr lines of 5, 1000 and 1001         *)
(* characters, and the transport a restart closed may still call back.     *)
(***************************************************************************)
\* watchPathsWatcher.on("change"): the callback of the watcher that
\* setupFileWatcher made for the server calls restartConnection(name, source)
WatchedPathChanged(p, name, source, provider) ==
    /\ <<name, source>> \in fileWatchers
    /\ StartRestart(p, name, source, provider)

NextWatch ==
    \/ StartUpdate(1, [n \in {"a"} |-> CfgArgs1], "global", TRUE)
    \/ UpdateEntry(1)
    \/ UpdateNotified(1, TRUE)
    \/ \E p \in Procs :
          \/ Connect(p)
          \/ WatchedPathChanged(p, "a", "global", TRUE)
          \/ RestartDelayed(p, TRUE)
          \/ RestartNotified(p, TRUE)
          \/ \E callback \in {"onerror", "onclose", "stderr"} :
                /\ \A i \in DOMAIN connections : Len(connections[i].errorHistory) < MaxLogged
                /\ ClosedTransportCalls(p, callback, "exited")
    \/ \E len \in {5, MaxErrorLength, MaxErrorLength + 1}, isInfoLog \in BOOLEAN :
          LET RECURSIVE text(_)
              text(n) == IF n = 0 THEN ""
                         ELSE IF n % 2 = 1 THEN "e" \o text(n - 1)
                         ELSE LET half == text(n \div 2) IN half \o half
          IN /\ \A i \in DOMAIN connections : Len(connections[i].errorHistory) < MaxLogged
             /\ StderrData("a", "global", text(len), isInfoLog)

SpecWatch == Init /\ [][NextWatch]_vars

(***************************************************************************)
(* The list of servers notifyWebviewOfServerChanges sends to the webview.  *)
(***************************************************************************)
\* a faulty variant of compareServersByOrder: indexOf's -1 is taken as it is
compareServersByOrderMinusOne(nameA, nameB, source, globalOrder, projectOrder) ==
    LET order == IF source = "project" THEN projectOrder ELSE globalOrder
        indexA == First({i \in DOMAIN order : order[i] = nameA}) - 1
        indexB == First({i \in DOMAIN order : order[i] = nameB}) - 1
    IN IF source \notin FileSources THEN NameRank(nameA) - NameRank(nameB)
       ELSE IF indexA # indexB THEN indexA - indexB
       ELSE NameRank(nameA) - NameRank(nameB)

\* compareServersByOrder: negative, zero or positive.  Number.MAX_SAFE_INTEGER
\* stands for a name the order does not hold; here it is the largest
\* integer of the model checker, beyond every index.  localeCompare on the
\* names of the model ("a", "b", "file-cool") is the difference of their
\* ranks in the alphabet.
compareServersByOrder(nameA, nameB, source, globalOrder, projectOrder) ==
    LET getOrderIndex(name, order) ==
            LET index == First({i \in DOMAIN order : order[i] = name}) - 1
            IN IF index = -1 THEN 2147483647 ELSE index
        order == IF source = "project" THEN projectOrder ELSE globalOrder
        indexA == getOrderIndex(nameA, order)
        indexB == getOrderIndex(nameB, order)
    IN IF source \notin FileSources THEN NameRank(nameA) - NameRank(nameB)
       ELSE IF indexA # indexB THEN indexA - indexB
       ELSE NameRank(nameA) - NameRank(nameB)

\* sortConnectionsByPriority: [...this.connections].sort(compare), a stable
\* sort (each connection is put behind those it does not come before)
sortConnectionsByPriority(conns, globalOrder, projectOrder) ==
    LET sourcePriority(source) ==
            CASE source = "project" -> 0 [] source = "global" -> 1
              [] source = "memory" -> 2 [] OTHER -> 1
        compare(x, y) ==
            IF sourcePriority(x.source) # sourcePriority(y.source)
            THEN sourcePriority(x.source) - sourcePriority(y.source)
            ELSE compareServersByOrder(x.name, y.name, x.source, globalOrder, projectOrder)
        RECURSIVE insert(_, _)
        insert(sorted, c) ==
            IF sorted = <<>> THEN <<c>>
            ELSE IF compare(c, sorted[Len(sorted)]) < 0
                 THEN Append(insert(SubSeq(sorted, 1, Len(sorted) - 1), c),
                             sorted[Len(sorted)])
                 ELSE Append(sorted, c)
        RECURSIVE sort(_)
        sort(cs) ==
            IF cs = <<>> THEN <<>>
            ELSE insert(sort(SubSeq(cs, 1, Len(cs) - 1)), cs[Len(cs)])
    IN sort(conns)

\* The servers a and b in the global and in the project file, a at the
\* gateway and file-cool, one operation at a time
NextOrder ==
    \/ MemoryStart(1, "gateway")
    \/ MemoryPush(1)
    \/ MemoryFetch(1)
    \/ MemoryFetched(1, Tools)
    \/ MemoryNotified(1)
    \/ \E snap \in SnapshotsOver(Names, {CfgMin}), source \in FileSources :
          StartUpdate(1, snap, source, TRUE)
    \/ UpdateDelete(1)
    \/ UpdateEntry(1)
    \/ UpdateNotified(1, TRUE)
    \/ Connected(1)

SpecOrder == InitEph /\ [][NextOrder]_vars

(***************************************************************************)
(* refreshAllConnections and refreshInMemoryServers, one operation at a    *)
(* time: a is in both settings files, file-cool and (with the gateway) a   *)
(* are the memory servers; the servers answer.  Between two operations the *)
(* user sets the permissions of the tool of file-cool and disables or      *)
(* enables a in a file; at any time the user disables or enables a memory  *)
(* server.                                                                 *)
(***************************************************************************)
NextRefreshAll ==
    \/ \E mode \in {"plain", "gateway"} : MemoryStart(1, mode)
    \/ MemoryPush(1)
    \/ MemoryFetch(1)
    \/ \E advertised \in {{}, Tools} : MemoryFetched(1, advertised)
    \/ MemoryNotified(1)
    \/ StartRefreshAll(1)
    \/ RefreshAllDelete(1)
    \/ RefreshAllInit(1, TRUE)
    \/ RefreshAllNotified(1)
    \/ UpdateEntry(1)
    \/ \E ok \in BOOLEAN : UpdateNotified(1, ok)
    \/ Connected(1)
    \/ /\ proc[1].op = "idle"
       /\ \E t \in Tools, shouldAllow \in BOOLEAN :
             toggleToolAlwaysAllow(FileCool, t, shouldAllow)
    \/ /\ proc[1].op = "idle"
       /\ \E t \in Tools, isEnabled \in BOOLEAN :
             toggleToolEnabledForPrompt(FileCool, t, isEnabled)
    \/ \E disabled \in BOOLEAN : ToggleDisabledWritten(1, "a", "global", disabled, TRUE)
    \/ ToolListFetched(1, Tools, TRUE)
    \/ Refresh(1)
    \/ \E n \in {"a", FileCool}, disabled \in BOOLEAN : toggleServerDisabled(n, disabled)

SpecRefreshAll == InitEph /\ [][NextRefreshAll]_vars

(***************************************************************************)
(* restartConnection next to the memory servers: file-cool and, from the   *)
(* gateway, a; the global file holds a too or is empty.                    *)
(***************************************************************************)
NextRestart ==
    \/ \E mode \in GatewayModes : MemoryStart(1, mode)
    \/ MemoryPush(1)
    \/ MemoryFetch(1)
    \/ MemoryFetched(1, Tools)
    \/ MemoryNotified(1)
    \/ \E snap \in SnapshotsOver({"a"}, {CfgArgs1}) : StartUpdate(1, snap, "global", TRUE)
    \/ UpdateDelete(1)
    \/ UpdateEntry(1)
    \/ UpdateNotified(1, TRUE)
    \/ DeleteFilter(1)
    \/ \E ok \in BOOLEAN : ConnectStarted(1, ok)
    \/ \E ok \in BOOLEAN : ConnectHandshake(1, ok)
    \/ ConnectFetched(1, Tools)
    \/ \E n \in {"a", FileCool}, source \in Sources \cup {NoSource} :
          StartRestart(1, n, source, TRUE)
    \/ RestartDelayed(1, TRUE)
    \/ RestartNotified(1, TRUE)

SpecRestart == InitEph /\ [][NextRestart]_vars

(***************************************************************************)
(* registerClient, unregisterClient and dispose.                           *)
(***************************************************************************)
registerClient ==
    /\ refCount < MaxClients
    /\ refCount' = refCount + 1
    /\ UNCHANGED <<connections, isConnecting, fileWatchers, memVars, lastCall, mcpSettings, timers,
                   isDisposed, proc, inMemoryVars>>

\* unregisterClient, a client that had registered leaving, and the dispose
\* it calls, up to the first await.  After a deleteConnection dispose goes on
\* with the next connection of the array it iterates, or with
\* this.connections = [].
unregisterClient(p) ==
    LET list == [i \in DOMAIN connections |->
                    <<connections[i].name, connections[i].source>>]
        pr == [Idle EXCEPT !.op = "dispose"]
    IN /\ proc[p].op = "idle"
       /\ refCount > 0
       /\ refCount' = refCount - 1
       /\ IF refCount - 1 <= 0 /\ ~isDisposed
          THEN /\ isDisposed' = TRUE
               /\ timers' = {}
               /\ fileWatchers' = {}
               /\ IF list = <<>>
                  THEN /\ connections' = <<>>
                       /\ UNCHANGED proc
                  ELSE BeginDelete(p, [pr EXCEPT !.pend = Tail(list)],
                                   Head(list)[1], Head(list)[2],
                                   IF Tail(list) = <<>> THEN "d_clear" ELSE "d_del")
          ELSE UNCHANGED <<connections, fileWatchers, timers, isDisposed, proc>>
       /\ UNCHANGED <<isConnecting, memVars, lastCall, mcpSettings, inMemoryVars>>

\* dispose: the deleteConnection of the next connection
DisposeDelete(p) ==
    LET pr == proc[p]
    IN /\ pr.op = "dispose" /\ pr.pc = "d_del"
       /\ BeginDelete(p, [pr EXCEPT !.pend = Tail(@)], Head(pr.pend)[1], Head(pr.pend)[2],
                      IF Tail(pr.pend) = <<>> THEN "d_clear" ELSE "d_del")
       /\ UNCHANGED <<isConnecting, fileWatchers, memVars, lastCall, mcpSettings, timers, clientVars, inMemoryVars>>

\* dispose: this.connections = [], and the watchers of the settings files
\* are disposed
DisposeClear(p) ==
    /\ proc[p].op = "dispose" /\ proc[p].pc = "d_clear"
    /\ connections' = <<>>
    /\ proc' = [proc EXCEPT ![p] = Idle]
    /\ UNCHANGED <<isConnecting, fileWatchers, memVars, lastCall, mcpSettings, timers, clientVars, inMemoryVars>>

\* The hub from its constructor on: the clients come and go, also while an
\* operation of the hub is under way; a is in the global and in the project
\* file, file-cool is the memory server
NextClients ==
    \/ registerClient
    \/ \E p \in Procs :
          \/ unregisterClient(p)
          \/ DisposeDelete(p)
          \/ DisposeClear(p)
          \/ DeleteFilter(p)
    \/ \E source \in FileSources :
          StartUpdate(1, [n \in {"a"} |-> CfgArgs1], source, TRUE)
    \/ UpdateEntry(1)
    \/ UpdateNotified(1, TRUE)
    \/ Connected(1)
    \/ MemoryStart(1, "plain")
    \/ MemoryPush(1)
    \/ MemoryFetch(1)
    \/ MemoryFetched(1, Tools)
    \/ MemoryNotified(1)

SpecClients == InitEph /\ [][NextClients]_vars

(***************************************************************************)
(* The debounce of the changes of the two settings files, the files        *)
(* holding no server.                                                      *)
(***************************************************************************)
\* a faulty variant of ConfigFileUnreadable: a file that cannot be parsed
\* is taken for an empty one
ConfigFileUnreadableAsEmpty(p, source, what) ==
    /\ <<source, 0>> \in timers
    /\ proc[p].op = "idle"
    /\ timers' = timers \ {<<source, 0>>}
    /\ BeginUpdate(p, <<>>, source, TRUE)

\* handleConfigFileChange when the timer of the key is due and the file does
\* not give a snapshot.  "invalid json": JSON.parse throws, the message is
\* shown and the handler returns.  "ENOENT": readFile throws; for the project
\* file cleanupProjectMcpServers starts, with the deleteConnection of the
\* first connection of the project file, and for the global file the error
\* is shown.
ConfigFileUnreadable(p, source, what) ==
    LET keep(c) == c.source = "project"
        projectConnections == Filter(connections, keep)
        names == [i \in DOMAIN projectConnections |-> projectConnections[i].name]
    IN /\ <<source, 0>> \in timers
       /\ proc[p].op = "idle"
       /\ timers' = timers \ {<<source, 0>>}
       /\ IF what = "ENOENT" /\ source = "project"
          THEN IF names = <<>>
               THEN BeginUpdate(p, <<>>, "project", FALSE)
               ELSE /\ BeginDelete(p, [Idle EXCEPT !.op = "cleanup", !.pend = Tail(names)],
                                   Head(names), "project",
                                   IF Tail(names) = <<>> THEN "k_update" ELSE "k_del")
                    /\ UNCHANGED <<isConnecting, fileWatchers, memVars, lastCall,
                                   mcpSettings, clientVars, inMemoryVars>>
          ELSE UNCHANGED <<connections, isConnecting, fileWatchers, memVars, lastCall,
                           mcpSettings, clientVars, inMemoryVars, proc>>

\* cleanupProjectMcpServers after a deleteConnection: the deleteConnection of
\* the next connection of the list it made at its start, and after the last
\* updateServerConnections({}, "project", false)
cleanupProjectMcpServers(p) ==
    LET pr == proc[p]
    IN /\ pr.op = "cleanup" /\ pr.pc \in {"k_del", "k_update"}
       /\ IF pr.pc = "k_del"
          THEN /\ BeginDelete(p, [pr EXCEPT !.pend = Tail(@)], Head(pr.pend), "project",
                              IF Tail(pr.pend) = <<>> THEN "k_update" ELSE "k_del")
               /\ UNCHANGED <<isConnecting, fileWatchers, memVars, lastCall,
                              mcpSettings, clientVars, inMemoryVars>>
          ELSE BeginUpdate(p, <<>>, "project", FALSE)
       /\ UNCHANGED timers

\* the snapshots the files give: the global file a and b, the project file
\* a, or a with a timeout the schema refuses
NextDebounce ==
    \/ \E source \in FileSources : debounceConfigChange(source)
    \/ Tick
    \/ \E p \in Procs, source \in FileSources : TimerFired(p, <<>>, source)
    \/ \E p \in Procs, ok \in BOOLEAN : UpdateNotified(p, ok)
    \/ \E snap \in {[n \in Names |-> CfgMin], [n \in {"a"} |-> [timeout |-> 0] @@ CfgMin]} :
          TimerFired(1, snap, "global")
    \/ \E snap \in {[n \in Names |-> CfgMin], [n \in {"a"} |-> [timeout |-> 0] @@ CfgMin]} :
          TimerFired(1, snap, "project")
    \/ UpdateDelete(1)
    \/ UpdateEntry(1)
    \/ Connected(1)
    \/ \E source \in FileSources, what \in {"invalid json", "ENOENT"} :
          ConfigFileUnreadable(1, source, what)
    \/ cleanupProjectMcpServers(1)

SpecDebounce == Init /\ [][NextDebounce]_vars

(***************************************************************************)
(* The error history of a connection: the stdio server a of the global     *)
(* file writes lines to its stderr, the k-th line being the text of k.     *)
(***************************************************************************)
\* the global file holds a; the line the server writes is one more than the
\* line before, which connection.server.error shows
NextErrors ==
    \/ StartUpdate(1, [n \in {"a"} |-> CfgArgs1], "global", TRUE)
    \/ UpdateEntry(1)
    \/ ConnectStarted(1, TRUE)
    \/ ConnectHandshake(1, TRUE)
    \/ ConnectFetched(1, Tools)
    \/ UpdateNotified(1, TRUE)
    \/ \E k \in 1..MaxOutputs, isInfoLog \in BOOLEAN :
          /\ LET i == findConnection(connections, "a", "global")
                 last == IF i = 0 THEN "" ELSE connections[i].error
             IN IF last = "" THEN k = 1 ELSE last = ToString(k - 1)
          /\ StderrData("a", "global", ToString(k), isInfoLog)

SpecErrors == Init /\ [][NextErrors]_vars

(***************************************************************************)
(* What a run of updateServerConnections did, read from its log.           *)
(***************************************************************************)
\* the deletes and creates of the log
Changes(acts) == SelectSeq(acts, LAMBDA act : act[1] \in {"delete", "create"})

\* the entries of the log about one name
ActsOn(acts, n) == SelectSeq(acts, LAMBDA act : act[2] = n)

\* the run started from the state a run with the same snapshot leaves: no
\* connection to remove, and one connection with the validated config for
\* every valid entry
StartedReconciled(pr) ==
    /\ pr.rem = {}
    /\ \A n \in DOMAIN pr.cfgs : ValidateOk(pr.cfgs[n]) => n \in pr.unch

\* the run started from a state that differs from its snapshot in the config
\* of one server only
StartedWithOneChange(pr) ==
    /\ pr.rem = {}
    /\ Cardinality(pr.chg) = 1
    /\ DOMAIN pr.cfgs = pr.unch \cup pr.chg

\* C2 (idempotence): a run of updateServerConnections that starts from the
\* state a run with the same snapshot left deletes nothing and creates
\* nothing, whatever fields the snapshot leaves to their defaults.
C2_SecondRunDoesNothing ==
    \A p \in Procs :
        (proc[p].op = "update" /\ StartedReconciled(proc[p]))
            => Changes(proc[p].acts) = <<>>

\* C3 ((name, scope) uniqueness): in every reachable state no two
\* connections of the array have the same name and the same source.
C3_NameSourceUnique ==
    \A i, j \in DOMAIN connections :
        (connections[i].name = connections[j].name
            /\ connections[i].source = connections[j].source) => i = j

\* C4 (serialized reconciliation): never are two runs of
\* updateServerConnections for one source in progress at once; a change of
\* the file during a run starts no second run before the first has ended.
C4_OneRunPerSource ==
    \A p, q \in Procs :
        (proc[p].op = "update" /\ proc[q].op = "update" /\ proc[p].src = proc[q].src)
            => p = q

\* C5 (guaranteed release): isConnecting is set as long as an
\* updateServerConnections that manages it or a restartConnection is in
\* progress, and it is clear whenever no operation is in progress, however
\* the last one ended.
C5_FlagHeldAndReleased ==
    /\ \A p \in Procs :
          (proc[p].op = "restart" \/ (proc[p].op = "update" /\ proc[p].manage))
              => isConnecting
    /\ (\A p \in Procs : proc[p].op = "idle") => ~isConnecting

\* the connections of the sources other than source
OtherSources(conns, source) == Filter(conns, LAMBDA c : c.source # source)

\* C1 (scope isolation): every step of an updateServerConnections for the
\* global source, from its call to its return, leaves the connections of the
\* project and memory sources as they are: none deleted, none made, none
\* changed; and so for the project source.
C1_OtherSourcesUntouched ==
    [][\A p \in Procs, s \in FileSources :
          (/\ proc'[p] # proc[p]
           /\ \/ proc[p].op = "update" /\ proc[p].src = s
              \/ proc'[p].op = "update" /\ proc'[p].src = s)
          => OtherSources(connections', s) = OtherSources(connections, s)]_vars

\* a run for the global source has deleted a and made it anew, while a is
\* there from the project file and from the gateway too
C1_Witness ==
    \E p \in Procs :
        /\ proc[p].op = "update" /\ proc[p].src = "global" /\ proc[p].pc = "u_notify"
        /\ Changes(proc[p].acts) = <<(<<"delete", "a">>), (<<"create", "a">>)>>
        /\ Matches(connections, "a", "global") # {}
        /\ Matches(connections, "a", "project") # {}
        /\ Matches(connections, "a", "memory") # {}

\* C6 (priority resolution): findConnection without a source gives the
\* project connection of the name if there is one, else the global one, else
\* the memory one, else nothing; with a source it gives a connection of
\* that name and source, and nothing only if there is none.
C6_ProjectGlobalMemory ==
    \A n \in {"a", FileCool} :
        /\ LET i == findConnection(connections, n, NoSource)
               has(s) == Matches(connections, n, s) # {}
           IN /\ i # 0 => connections[i].name = n
              /\ has("project") => (i # 0 /\ connections[i].source = "project")
              /\ (~has("project") /\ has("global"))
                    => (i # 0 /\ connections[i].source = "global")
              /\ (~has("project") /\ ~has("global") /\ has("memory"))
                    => (i # 0 /\ connections[i].source = "memory")
              /\ (~has("project") /\ ~has("global") /\ ~has("memory")) => i = 0
        /\ \A s \in Sources :
              LET j == findConnection(connections, n, s)
              IN /\ j # 0 => (connections[j].name = n /\ connections[j].source = s)
                 /\ j = 0 => Matches(connections, n, s) = {}

\* the name a is there in the three sources, and is resolved to the
\* project's connection
C6_Witness ==
    /\ Matches(connections, "a", "project") # {}
    /\ Matches(connections, "a", "global") # {}
    /\ Matches(connections, "a", "memory") # {}
    /\ connections[findConnection(connections, "a", NoSource)].source = "project"

\* C7 (permission durability): when a refreshInMemoryServers has restored
\* the tool states, every tool of a memory server that had alwaysAllow when
\* the refresh began and is advertised again has alwaysAllow, and every tool
\* that had enabledForPrompt false has it false.
C7_PermissionsSurviveRefresh ==
    \A p \in Procs :
        (proc[p].op = "refresh" /\ proc[p].pc = "f_notify") =>
            \A i \in memoryConnections(connections) :
                connections[i].name \in DOMAIN proc[p].was =>
                    \A t \in connections[i].tools, w \in proc[p].was[connections[i].name] :
                        t.name = w.name =>
                            /\ w.alwaysAllow => t.alwaysAllow
                            /\ ~w.enabledForPrompt => ~t.enabledForPrompt

\* C8 (disabled precondition): a callTool or readResource that resolved to a
\* connection whose server is disabled threw the server-disabled error and
\* sent no request.
C8_DisabledNoRequest ==
    (lastCall.op \in {"callTool", "readResource"} /\ lastCall.disabled)
        => (lastCall.error = "disabled" /\ lastCall.request = "")

\* readResource without a source resolved a to the disabled connection of
\* the global file and threw
C8_Witness ==
    /\ lastCall.op = "readResource"
    /\ lastCall.source = NoSource
    /\ lastCall.found = "global"
    /\ lastCall.disabled
    /\ lastCall.error = "disabled"

\* C9 (validation skip-and-continue): when the loop of a run over its
\* snapshot has ended, an entry that validation rejects (command together
\* with url) has been skipped without a delete or a create, and every valid
\* entry has been reconciled: connected anew, or found with the same config.
C9_InvalidSkippedOthersReconciled ==
    \A p \in Procs :
        (proc[p].op = "update" /\ proc[p].pc = "u_notify") =>
            \A n \in DOMAIN proc[p].cfgs :
                IF ValidateOk(proc[p].cfgs[n])
                THEN \E i \in DOMAIN proc[p].acts :
                        proc[p].acts[i] \in {<<"create", n>>, <<"same", n>>}
                ELSE ActsOn(proc[p].acts, n) = <<(<<"invalid", n>>)>>

\* a run over a mixed entry a and a valid entry b has ended its loop, and b
\* is connected
C9_Witness ==
    \E p \in Procs :
        /\ proc[p].op = "update" /\ proc[p].pc = "u_notify"
        /\ DOMAIN proc[p].cfgs = {"a", "b"}
        /\ proc[p].cfgs["a"] = CfgMixed
        /\ ValidateOk(proc[p].cfgs["b"])
        /\ ActsOn(proc[p].acts, "b") = <<(<<"create", "b">>)>>
        /\ findConnection(connections, "a", proc[p].src) = 0
        /\ \E i \in DOMAIN connections :
              /\ connections[i].name = "b" /\ connections[i].source = proc[p].src
              /\ connections[i].status = "connected"

\* C10 (minimal diff): a run whose snapshot differs from the state it
\* starts from in the config of one server a only has, when its loop has
\* ended, deleted a once and created a once, and done nothing else.
C10_OneDeleteOneCreate ==
    \A p \in Procs :
        (proc[p].op = "update" /\ proc[p].pc = "u_notify"
            /\ StartedWithOneChange(proc[p])) =>
            \E n \in proc[p].chg :
                Changes(proc[p].acts) = <<(<<"delete", n>>), (<<"create", n>>)>>

\* C11 (removed names are deleted): when the loops of a run of
\* updateServerConnections have ended, no connection of the run's source has a
\* name that the snapshot lacks; and a step that takes connections of a name
\* and source out of the array takes out connections that were closed before.
C11_RemovedNamesDeleted ==
    [][/\ \A p \in Procs :
             (proc'[p].op = "update" /\ proc'[p].pc = "u_notify") =>
                 \A i \in DOMAIN connections' :
                     connections'[i].source = proc'[p].src
                         => connections'[i].name \in DOMAIN proc'[p].cfgs
       /\ \A n \in Names, s \in FileSources :
             Cardinality(Matches(connections', n, s)) < Cardinality(Matches(connections, n, s))
                 => \A i \in Matches(connections, n, s) : ~connections[i].open]_vars

\* a run whose snapshot lacks the connected server b has deleted b and ended
\* its loops, a staying as it was
C11_Witness ==
    \E p \in Procs :
        /\ proc[p].op = "update" /\ proc[p].pc = "u_notify"
        /\ proc[p].rem = {"b"}
        /\ DOMAIN proc[p].cfgs = {"a"}
        /\ <<"delete", "b">> \in Range(proc[p].acts)
        /\ Matches(connections, "b", proc[p].src) = {}
        /\ Matches(connections, "a", proc[p].src) # {}

\* C12 (error bounding): after any number of appended errors the history of
\* a connection holds at most 100 entries, and they are the entries appended
\* last, in the order they were appended: after k appends (the k-th is the
\* error the connection shows) the last min(k, 100) of them.
C12_LastHundredInOrder ==
    \A i \in DOMAIN connections :
        LET h == connections[i].errorHistory
        IN /\ Len(h) <= MaxErrorHistory
           /\ connections[i].error # "" =>
                 \E k \in 1..MaxOutputs :
                     /\ connections[i].error = ToString(k)
                     /\ Len(h) = (IF k < MaxErrorHistory THEN k ELSE MaxErrorHistory)
                     /\ \A j \in DOMAIN h : h[j] = ToString(k - Len(h) + j)

\* 150 lines were appended: the history holds the lines 51 to 150
C12_Witness ==
    \E i \in DOMAIN connections :
        LET h == connections[i].errorHistory
        IN /\ Len(h) = 100
           /\ h[1] = "51"
           /\ h[100] = "150"

\* C13 (debounce collapse): of every key at most one timer is set, whatever
\* the number of change events; an event for a key leaves the one timer of
\* that key due in 500 ms and the timers of the other key as they are; and
\* handleConfigFileChange starts for a key only when that timer is due, that
\* is 500 ms after the last event for the key, and takes the timer away.
C13_DebounceCollapse ==
    [][\A s \in FileSources :
          LET of(ts) == {t \in ts : t[1] = s}
              others(ts) == {t \in ts : t[1] # s}
          IN /\ Cardinality(of(timers')) <= 1
             /\ (<<s, DebounceMs>> \in timers' \ timers)
                   => (of(timers') = {<<s, DebounceMs>>} /\ others(timers') = others(timers))
             /\ (\E p \in Procs : /\ proc[p].op = "idle"
                                   /\ proc'[p].op = "update" /\ proc'[p].src = s)
                   => (of(timers) = {<<s, 0>>} /\ of(timers') = {}
                         /\ others(timers') = others(timers))]_vars

\* the timer of the global file has fired and started a run, while the
\* timer of the project file, set 200 ms later, has 200 ms to go
C13_Witness ==
    /\ \E p \in Procs : proc[p].op = "update" /\ proc[p].src = "global"
    /\ timers = {<<"project", 200>>}

\* C14 (reference-counted disposal): an unregisterClient that brings the
\* count of clients to zero disposes the hub, and one that leaves a client
\* registered changes nothing else; a dispose that has ended leaves the array
\* empty, and dispose takes out of the array only connections it has closed.
C14_DisposeAtZero ==
    [][/\ (refCount' = refCount - 1 /\ refCount' = 0)
             => \/ \E p \in Procs : proc'[p].op = "dispose"
                \/ connections' = <<>>
       /\ (refCount' = refCount - 1 /\ refCount' > 0)
             => (connections' = connections /\ proc' = proc /\ isDisposed' = isDisposed)
       /\ \A p \in Procs :
             (proc[p].op = "dispose" /\ proc'[p].op = "idle") => connections' = <<>>
       /\ \A p \in Procs, i \in DOMAIN connections :
             (/\ proc[p].op = "dispose" \/ proc'[p].op = "dispose"
              /\ Matches(connections', connections[i].name, connections[i].source) = {}
              /\ connections[i].open)
                => proc[p].op = "idle"]_vars

\* C15 (no restart of memory servers): no step of a restartConnection, with
\* a source given or the connection found by its name alone, closes, takes
\* away, makes or changes a connection of the source memory.
C15_MemoryNeverRestarted ==
    [][\A p \in Procs :
          (proc'[p] # proc[p] /\ (proc[p].op = "restart" \/ proc'[p].op = "restart"))
             => SelectSeq(connections', LAMBDA c : c.source = "memory")
                  = SelectSeq(connections, LAMBDA c : c.source = "memory")]_vars

\* C16 (connect failure contained and recorded): when a connectToServer ends
\* in failure, at the start of the transport or at the handshake, the array
\* then holds a connection of that name and source with the status
\* disconnected and an entry in its error history, and the operation that
\* called goes on where the call returns.
C16_FailureLeavesDisconnected ==
    [][\A p \in Procs :
          (/\ proc[p].pc \in {"c_start", "c_connect"}
           /\ proc'[p] # proc[p]
           /\ proc'[p].pc \notin {"c_connect", "c_fetch"})
             => /\ \E i \in Matches(connections', proc[p].name, proc[p].csrc) :
                      /\ connections'[i].status = "disconnected"
                      /\ connections'[i].errorHistory # <<>>
                /\ proc'[p].op = proc[p].op
                /\ proc'[p].pc = proc[p].ret]_vars

\* C17 (no silent resurrection): the status of a connection that is
\* disconnected becomes connecting or connected only in a step of a
\* restartConnection, an updateServerConnections or a refresh of the memory
\* servers; the callbacks of a transport that reports an error or closes
\* never take the connection up again.
C17_NoSilentResurrection ==
    [][\A n \in Names \cup {FileCool}, s \in Sources :
          (/\ \E i \in Matches(connections, n, s) : connections[i].status = "disconnected"
           /\ \E j \in Matches(connections', n, s) :
                 connections'[j].status \in {"connecting", "connected"})
             => \E p \in Procs :
                   /\ proc'[p] # proc[p]
                   /\ {proc[p].op, proc'[p].op} \cap {"restart", "update", "refresh", "init"}
                         # {}]_vars

\* the transport of a reported an error, a was marked disconnected, and a
\* restartConnection has set it to connecting
C17_Witness ==
    \E p \in Procs, i \in DOMAIN connections :
        /\ proc[p].op = "restart" /\ proc[p].pc = "r_delay"
        /\ connections[i].name = "a" /\ connections[i].source = "global"
        /\ connections[i].status = "connecting"
        /\ connections[i].errorHistory # <<>>

\* C18 (lifecycle start): a connection comes into the array with the status
\* connecting, and a connection of a name and source is seen connected only
\* from the step in which its handshake has succeeded.
C18_ConnectingThenConnected ==
    [][/\ \A p \in Procs :
             (OwnIdx(connections, p) = 0 /\ OwnIdx(connections', p) # 0)
                => connections'[OwnIdx(connections', p)].status = "connecting"
       /\ \A n \in Names \cup {FileCool}, s \in Sources :
             (/\ \E j \in Matches(connections', n, s) : connections'[j].status = "connected"
              /\ \A i \in Matches(connections, n, s) : connections[i].status # "connected")
                => \E p \in Procs : /\ proc[p].pc = "c_connect" /\ proc'[p].pc = "c_fetch"
                                     /\ proc[p].name = n /\ proc[p].csrc = s]_vars

\* C19 (capability fetch ordering): whenever an operation sends a discovery
\* request (after the handshake, in initializeInMemoryFileCoolServer, in
\* updateServerToolList), the connection it sends it on has the status
\* connected.
C19_FetchOnlyWhenConnected ==
    [][\A p \in Procs :
          (proc'[p].pc \in {"c_fetch", "m_fetch", "t_fetch"} /\ proc[p].pc # proc'[p].pc)
             => LET n == IF proc'[p].pc = "m_fetch" THEN FileCool ELSE proc'[p].name
                    s == IF proc'[p].pc = "m_fetch" THEN "memory" ELSE proc'[p].csrc
                    i == findConnection(connections', n, s)
                IN i # 0 /\ connections'[i].status = "connected"]_vars

\* C20 (discovery failure does not flap): the end of a discovery, failed or
\* not, changes neither the status nor the error history nor the error of
\* any connection; after a failed one the connection is connected with no
\* tools.
C20_DiscoveryLeavesStatus ==
    [][\A p \in Procs :
          (proc[p].pc \in {"c_fetch", "m_fetch", "t_fetch"} /\ proc'[p] # proc[p])
             => /\ Len(connections') = Len(connections)
                /\ \A i \in DOMAIN connections :
                      /\ connections'[i].status = connections[i].status
                      /\ connections'[i].errorHistory = connections[i].errorHistory
                      /\ connections'[i].error = connections[i].error]_vars

\* the discovery after the handshake of a has failed: a is connected, has
\* no tools and no error
C20_Witness ==
    \E i \in DOMAIN connections :
        /\ connections[i].name = "a" /\ connections[i].source = "global"
        /\ connections[i].owner = 0 /\ connections[i].open
        /\ connections[i].status = "connected"
        /\ connections[i].tools = {}
        /\ connections[i].errorHistory = <<>>

C22_RestartsDebounced ==
    \A p \in Procs, q \in Procs :
        (/\ p # q
         /\ proc[p].op = "restart" /\ proc[p].pc = "r_delay"
         /\ proc[q].op = "restart" /\ proc[q].pc = "r_delay")
            => (proc[p].name # proc[q].name \/ proc[p].csrc # proc[q].csrc)

\* C23: whatever the order of the names in the two settings files, the list
\* sent to the webview holds the connections of the hub, each once, the
\* project servers first, then the global, then the memory servers; the
\* project and the global servers stand in the order of their file, a
\* server the file does not name behind those it names, and such servers in
\* alphabetical order; the memory servers stand in alphabetical order.
C23_SortedForUi ==
    LET Orders == {<<>>, <<"a">>, <<"b">>, <<"a", "b">>, <<"b", "a">>}
        Alphabet == <<"a", "b", FileCool>>
        Pos(seq, n) == IF \E i \in DOMAIN seq : seq[i] = n
                       THEN CHOOSE i \in DOMAIN seq : seq[i] = n ELSE 0
        Scope(source) == Pos(<<"project", "global", "memory">>, source)
        InOrder(x, y, order) ==
            IF x.source = "memory" \/ (Pos(order, x.name) = 0 /\ Pos(order, y.name) = 0)
            THEN Pos(Alphabet, x.name) <= Pos(Alphabet, y.name)
            ELSE /\ Pos(order, x.name) # 0
                 /\ Pos(order, y.name) # 0 => Pos(order, x.name) <= Pos(order, y.name)
    IN \A globalOrder \in Orders, projectOrder \in Orders :
          LET sent == sortConnectionsByPriority(connections, globalOrder, projectOrder)
          IN /\ Len(sent) = Len(connections)
             /\ \A c \in Range(connections) :
                    Cardinality({i \in DOMAIN sent : sent[i] = c})
                        = Cardinality({i \in DOMAIN connections : connections[i] = c})
             /\ \A i \in DOMAIN sent, j \in DOMAIN sent :
                    i < j =>
                       \/ Scope(sent[i].source) < Scope(sent[j].source)
                       \/ /\ sent[i].source = sent[j].source
                          /\ InOrder(sent[i], sent[j],
                                     IF sent[i].source = "project" THEN projectOrder
                                     ELSE globalOrder)

\* C23 happens: six servers, two of each source; with b alone named in the
\* global file and the names of the project file in the order b, a, the
\* list is project b, a, global b, a, memory a, file-cool
C23_Witness ==
    LET sent == sortConnectionsByPriority(connections, <<"b">>, <<"b", "a">>)
    IN /\ Len(connections) = 6
       /\ [i \in DOMAIN sent |-> <<sent[i].source, sent[i].name>>]
             = << <<"project", "b">>, <<"project", "a">>, <<"global", "b">>,
                  <<"global", "a">>, <<"memory", "a">>, <<"memory", FileCool>> >>

\* C24: every request callTool or readResource sends goes out with the
\* timeout of the config of the server it resolved, 600 s when the config
\* names none.
C24_CallsBounded ==
    [][(lastCall' # lastCall /\ lastCall'.request # "" /\ lastCall'.result = "") =>
          LET c == connections[findConnection(connections, lastCall'.name,
                                              lastCall'.source)]
          IN lastCall'.timeout =
                 1000 * (IF Has(c.config, "timeout") THEN c.config.timeout
                         ELSE DefaultTimeout)]_vars

\* C25: when the request of a callTool or readResource fails or times out,
\* the caller gets the error, and the connections (their number, and the
\* status, disabled flag, tools, error and error history of each) are what
\* they were.
C25_FailedCallLeavesConnection ==
    [][(/\ lastCall.request # "" /\ lastCall.result = ""
        /\ lastCall'.result \in {"failed", "timed out"}) =>
          /\ lastCall'.error = lastCall'.result
          /\ connections' = connections]_vars

\* C25 happens: a readResource on a timed out, and the connection it resolved
\* is connected, with its tools and an empty error history
C25_Witness ==
    /\ lastCall.op = "readResource"
    /\ lastCall.result = "timed out" /\ lastCall.error = "timed out"
    /\ \E i \in DOMAIN connections :
           /\ connections[i].name = lastCall.name
           /\ connections[i].source = lastCall.found
           /\ connections[i].status = "connected"
           /\ connections[i].tools # {}
           /\ connections[i].errorHistory = <<>>

C27_EphemeralDisabledDurable ==
    [][/\ \A i \in memoryConnections(connections') :
             connections'[i].disabled =
                 IF connections'[i].name \in DOMAIN memoryServerDisabledStates'
                 THEN memoryServerDisabledStates'[connections'[i].name]
                 ELSE connections'[i].name # FileCool
       /\ \A n \in DOMAIN memoryServerDisabledStates :
             /\ n \in DOMAIN memoryServerDisabledStates'
             /\ memoryServerDisabledStates'[n] # memoryServerDisabledStates[n] =>
                    \E disabled \in BOOLEAN : toggleServerDisabled(n, disabled)]_vars

\* C27 happens: a refreshInMemoryServers has made the memory servers again,
\* file-cool disabled and the gateway's a enabled as the toggles left them
C27_Witness ==
    /\ proc[1].op = "refresh" /\ proc[1].pc = "f_notify"
    /\ \E i \in memoryConnections(connections) :
           connections[i].name = FileCool /\ connections[i].disabled
    /\ \E i \in memoryConnections(connections) :
           connections[i].name = "a" /\ ~connections[i].disabled


\* C28 (truncation of an error message): appending a message of more than
\* 1000 characters stores its first 1000 characters followed by the suffix
\* "...(error message truncated)", a message of at most 1000 characters is
\* stored as it is, and in both cases the stored message is the last entry
\* of the history and the error the connection shows.
C28_LongMessagesTruncated ==
    [][\A len \in {5, MaxErrorLength, MaxErrorLength + 1} :
          LET RECURSIVE text(_)
              text(n) == IF n = 0 THEN ""
                         ELSE IF n % 2 = 1 THEN "e" \o text(n - 1)
                         ELSE LET half == text(n \div 2) IN half \o half
              msg == text(len)
              i == findConnection(connections, "a", "global")
          IN StderrData("a", "global", msg, FALSE) =>
                LET stored == connections'[i].error
                    h == connections'[i].errorHistory
                IN /\ Len(h) = Len(connections[i].errorHistory) + 1
                   /\ h[Len(h)] = stored
                   /\ IF len > 1000
                      THEN /\ Len(stored) = 1000 + Len("...(error message truncated)")
                           /\ SubSeq(stored, 1, 1000) = SubSeq(msg, 1, 1000)
                           /\ SubSeq(stored, 1001, Len(stored)) = "...(error message truncated)"
                      ELSE stored = msg]_vars

\* a line of 1000 characters was appended whole, then one of 1001 characters
\* with its end replaced by the suffix
C28_Witness ==
    \E i \in DOMAIN connections :
        LET h == connections[i].errorHistory
        IN /\ Len(h) = 2
           /\ Len(h[1]) = 1000
           /\ Len(h[2]) = 1028
           /\ SubSeq(h[2], 1001, 1028) = "...(error message truncated)"
           /\ connections[i].error = h[2]

\* C29 (the history is written by the connection's own transport): a
\* callback (onerror, onclose, stderr data) of the transport of a connection
\* that was deleted changes neither the status nor the error nor the error
\* history of a connection whose own transport is open.
C29_OwnTransportOnly ==
    [][(\E p \in Procs, callback \in {"onerror", "onclose", "stderr"} :
           ClosedTransportCalls(p, callback, "exited"))
         => \A i \in DOMAIN connections :
               connections[i].open =>
                   /\ connections'[i].status = connections[i].status
                   /\ connections'[i].error = connections[i].error
                   /\ connections'[i].errorHistory = connections[i].errorHistory]_vars

\* C30 (watchers survive reconciliation): when updateServerConnections has
\* ended, every stdio connection of a file with watchPaths that is in the
\* array, the ones whose config the call left unchanged and the ones of the
\* other file included, has a watcher, so that a change of a watched path
\* restarts it.
C30_WatchersSurvive ==
    (\A p \in Procs : proc[p].op = "idle") =>
        \A i \in DOMAIN connections :
            LET c == connections[i].config
            IN (/\ connections[i].source # "memory"
                /\ c.type = "stdio"
                /\ Has(c, "watchPaths")
                /\ Len(c.watchPaths) > 0)
               => <<connections[i].name, connections[i].source>> \in fileWatchers

\* C31 (disposal is final): once dispose has ended, the array of connections
\* is empty and stays empty: no initialization, reconciliation or restart
\* that was under way when dispose ran, and none that comes later, puts a
\* connection in it.
C31_DisposalFinal ==
    (isDisposed /\ \A p \in Procs : proc[p].op # "dispose") => connections = <<>>

\* C32 (the saved tool states shrink by toggles only): a tool recorded as
\* alwaysAllow, or as disabled, in the saved state of a memory server leaves
\* it only in a toggleToolAlwaysAllow(false), or a
\* toggleToolEnabledForPrompt(true), of that tool; no refresh takes it out,
\* whatever the tool list of the server is when the refresh saves the states.
C32_ShrunkByTogglesOnly ==
    [][\A n \in DOMAIN memoryServerToolStates, t \in Tools :
          /\ n \in DOMAIN memoryServerToolStates'
          /\ (/\ t \in memoryServerToolStates[n].alwaysAllow
              /\ t \notin memoryServerToolStates'[n].alwaysAllow)
                => toggleToolAlwaysAllow(n, t, FALSE)
          /\ (/\ t \in memoryServerToolStates[n].disabledTools
              /\ t \notin memoryServerToolStates'[n].disabledTools)
                => toggleToolEnabledForPrompt(n, t, TRUE)]_vars

\* C33 (a failed write leaves the connection as it was): when the write of
\* the settings file fails in a toggleServerDisabled of a server of the
\* global or the project file, the error is thrown to the caller, and the
\* disabled flag and the tools of the connection, the file and every other
\* connection are what they were.
C33_FailedWriteChangesNothing ==
    [][\A source \in {"project", NoSource}, d \in BOOLEAN :
          ToggleDisabledWritten(1, "a", source, d, FALSE) =>
              /\ connections' = connections
              /\ mcpSettings' = mcpSettings
              /\ lastCall'.op = "toggleServerDisabled"
              /\ lastCall'.error = "write failed"]_vars

\* the toggle of the connected a of the project file failed at the write:
\* a has its tools and is enabled, as the file says
C33_Witness ==
    /\ lastCall.op = "toggleServerDisabled"
    /\ lastCall.found = "project"
    /\ lastCall.error = "write failed"
    /\ \E i \in Matches(connections, "a", "project") :
           /\ connections[i].status = "connected"
           /\ connections[i].tools # {}
           /\ ~connections[i].disabled
    /\ ~Has(mcpSettings["project"]["a"], "disabled")

\* C34 (an unreadable configuration changes nothing): when the timer of a
\* file is due and the file holds invalid JSON or a snapshot the schema
\* refuses, or the global file is missing, no connection is deleted, made or
\* changed and no operation starts; when the project file is missing, the
\* cleanup leaves the connections of the other sources as they are, and has
\* deleted every connection of the project file when its deletes are done.
C34_UnreadableChangesNothing ==
    [][LET others(conns) == LET keep(c) == c.source # "project" IN Filter(conns, keep)
           refused == [n \in {"a"} |-> [timeout |-> 0] @@ CfgMin]
       IN /\ \A source \in FileSources :
                (\/ ConfigFileUnreadable(1, source, "invalid json")
                 \/ ConfigFileUnreadable(1, "global", "ENOENT")
                 \/ TimerFired(1, refused, source))
                   => (connections' = connections /\ proc' = proc
                          /\ fileWatchers' = fileWatchers)
          /\ (proc'[1] # proc[1] /\ (proc[1].op = "cleanup" \/ proc'[1].op = "cleanup"))
                => /\ others(connections') = others(connections)
                   /\ proc'[1].pc = "k_update" => Matches(connections', "a", "project") = {}
                   /\ proc'[1].pc = "k_update" => Matches(connections', "b", "project") = {}]_vars

\* the project file was deleted: the cleanup has deleted the connections a
\* and b of the project file, and a of the global file is connected
C34_Witness ==
    /\ proc[1].op = "cleanup" /\ proc[1].pc = "k_update"
    /\ <<"delete", "a">> \in Range(proc[1].acts)
    /\ <<"delete", "b">> \in Range(proc[1].acts)
    /\ \A i \in DOMAIN connections : connections[i].source # "project"
    /\ \E i \in Matches(connections, "a", "global") : connections[i].status = "connected"

\* C35 (refreshAllConnections is not re-entrant): a refreshAllConnections
\* called while isConnecting is set returns at once, and one that runs
\* clears the flag when it ends, so that at no time two of them are deleting
\* and making connections.
C35_OneRefreshAllAtATime ==
    Cardinality({p \in Procs : \/ proc[p].op = "refreshAll"
                               \/ proc[p].op = "update" /\ proc[p].outer # ""}) <= 1

(***************************************************************************)
(* The in-memory transport (InMemoryTransport.ts).  The two endpoints are  *)
(* the ones createInMemoryTransportPair makes; connectToPeer is an action  *)
(* of its own so that the unconnected states are reached too.  A callback  *)
(* given to setImmediate is queued in immediates and run later, in the     *)
(* order of the calls of setImmediate.                                     *)
(***************************************************************************)

\* the most messages one endpoint sends
MaxSends == 2

\* connectToPeer(peer) called on endpoint e
connectToPeer(e, peer) ==
    /\ transports' =
          IF transports[e].peer # 0
          THEN [transports EXCEPT ![e].thrown = "Transport already connected to a peer"]
          ELSE [transports EXCEPT ![e].peer = peer, ![e].thrown = "", ![peer].peer = e]
    /\ UNCHANGED <<connections, isConnecting, fileWatchers, memVars, lastCall, mcpSettings, timers,
                   clientVars, proc, immediates, inMemoryServer, condensed>>

\* start() without the test of _isClosed: a faulty variant
startAfterClose(e) ==
    /\ transports' =
          IF transports[e].isStarted
          THEN [transports EXCEPT ![e].thrown = "Transport already started"]
          ELSE [transports EXCEPT ![e].isStarted = TRUE, ![e].starts = @ + 1, ![e].thrown = ""]
    /\ UNCHANGED <<connections, isConnecting, fileWatchers, memVars, lastCall, mcpSettings, timers,
                   clientVars, proc, immediates, inMemoryServer, condensed>>

\* start() called on endpoint e
start(e) ==
    /\ transports' =
          IF transports[e].isStarted
          THEN [transports EXCEPT ![e].thrown = "Transport already started"]
          ELSE IF transports[e].isClosed
          THEN [transports EXCEPT ![e].thrown = "Transport is closed"]
          ELSE [transports EXCEPT ![e].isStarted = TRUE, ![e].starts = @ + 1, ![e].thrown = ""]
    /\ UNCHANGED <<connections, isConnecting, fileWatchers, memVars, lastCall, mcpSettings, timers,
                   clientVars, proc, immediates, inMemoryServer, condensed>>

\* send(message) called on endpoint e: the three tests, then the delivery is
\* left to a callback of setImmediate
send(e, message) ==
    /\ Len(transports[e].sent) < MaxSends
    /\ IF ~transports[e].isStarted
       THEN /\ transports' = [transports EXCEPT ![e].thrown = "Transport not started"]
            /\ UNCHANGED immediates
       ELSE IF transports[e].isClosed
       THEN /\ transports' = [transports EXCEPT ![e].thrown = "Transport is closed"]
            /\ UNCHANGED immediates
       ELSE IF transports[e].peer = 0
       THEN /\ transports' = [transports EXCEPT ![e].thrown = "No peer connected"]
            /\ UNCHANGED immediates
       ELSE /\ immediates' = Append(immediates, [kind |-> "message", from |-> e, message |-> message])
            /\ transports' = [transports EXCEPT
                  ![e].thrown = "",
                  ![e].sent = Append(@, [message |-> message,
                                         peerClosed |-> transports[transports[e].peer].isClosed])]
    /\ UNCHANGED <<connections, isConnecting, fileWatchers, memVars, lastCall, mcpSettings, timers,
                   clientVars, proc, inMemoryServer, condensed>>

\* close() called on endpoint e: the two notifications are left to callbacks
\* of setImmediate, and the listeners are removed and _peer is cleared before
\* close returns
close(e) ==
    /\ IF transports[e].isClosed
       THEN /\ transports' = [transports EXCEPT ![e].thrown = ""]
            /\ UNCHANGED immediates
       ELSE /\ immediates' =
                  (IF transports[e].peer # 0 /\ ~transports[transports[e].peer].isClosed
                   THEN Append(immediates, [kind |-> "closePeer", from |-> e, message |-> 0])
                   ELSE immediates)
                  \o <<[kind |-> "closeSelf", from |-> e, message |-> 0]>>
            /\ transports' = [transports EXCEPT ![e].isClosed = TRUE, ![e].isStarted = FALSE,
                                                ![e].listeners = FALSE, ![e].peer = 0,
                                                ![e].thrown = ""]
    /\ UNCHANGED <<connections, isConnecting, fileWatchers, memVars, lastCall, mcpSettings, timers,
                   clientVars, proc, inMemoryServer, condensed>>

\* _eventEmitter.emit(event, message) of endpoint e in the transports ts: the
\* listeners the constructor registered, as long as removeAllListeners has
\* not run ("error" is never emitted)
emit(ts, e, event, message) ==
    IF ~ts[e].listeners THEN ts
    ELSE IF event = "message"
    THEN (IF ~ts[e].isClosed THEN [ts EXCEPT ![e].received = Append(@, message)] ELSE ts)
    ELSE (IF ~ts[e].isClosed THEN [ts EXCEPT ![e].isClosed = TRUE, ![e].onclose = @ + 1] ELSE ts)

\* the oldest callback given to setImmediate runs; it reads this._peer as it
\* is now
RunImmediate ==
    /\ immediates # <<>>
    /\ LET cb == Head(immediates)
           peer == transports[cb.from].peer
       IN  transports' =
              IF cb.kind = "message"
              THEN (IF peer # 0 /\ ~transports[peer].isClosed
                    THEN emit(transports, peer, "message", cb.message) ELSE transports)
              ELSE IF cb.kind = "closePeer"
              THEN (IF peer # 0 THEN emit(transports, peer, "close", 0) ELSE transports)
              ELSE emit(transports, cb.from, "close", 0)
    /\ immediates' = Tail(immediates)
    /\ UNCHANGED <<connections, isConnecting, fileWatchers, memVars, lastCall, mcpSettings, timers,
                   clientVars, proc, inMemoryServer, condensed>>

\* the k-th message an endpoint sends is the number k
NextTransport ==
    \/ \E e \in 1..2 : connectToPeer(e, 3 - e)
    \/ \E e \in 1..2 : start(e)
    \/ \E e \in 1..2 : send(e, Len(transports[e].sent) + 1)
    \/ \E e \in 1..2 : close(e)
    \/ RunImmediate

SpecTransport == Init /\ [][NextTransport]_vars

\* the event loop runs every callback given to setImmediate
SpecTransportFair == Init /\ [][NextTransport]_vars /\ WF_vars(RunImmediate)

\* C36 (close notification): after close() of an endpoint of a connected
\* pair, the onclose of that endpoint and the onclose of its peer are each
\* called, and no onclose is ever called twice.
C36_CloseNotifiesBoth ==
    /\ \A e \in 1..2 :
          (/\ transports[3 - e].peer = e
           /\ \E i \in DOMAIN immediates : immediates[i].kind = "closeSelf" /\ immediates[i].from = e)
          ~> (transports[e].onclose = 1 /\ transports[3 - e].onclose = 1)
    /\ [](\A e \in 1..2 : transports[e].onclose <= 1)

\* C37 (delivery): a message whose send() returned while the peer was not
\* closed is given to the onmessage of the peer, unless the peer closes
\* first; the messages an endpoint receives arrive once and in the order they
\* were sent; a closed endpoint receives nothing.
C37_SentIsDelivered ==
    /\ \A e \in 1..2 : \A k \in 1..MaxSends :
          (Len(transports[e].sent) >= k /\ ~transports[e].sent[k].peerClosed)
          ~> (\/ \E i \in DOMAIN transports[3 - e].received : transports[3 - e].received[i] = k
              \/ transports[3 - e].isClosed)
    /\ [][\A e \in 1..2 :
             /\ \A i, j \in DOMAIN transports'[e].received :
                   i < j => transports'[e].received[i] < transports'[e].received[j]
             /\ transports[e].isClosed => transports'[e].received = transports[e].received]_vars

\* C38 (state machine of an endpoint): send returns only when the endpoint is
\* started, not closed and has a peer, and otherwise throws and queues
\* nothing; start returns only on an endpoint not started and not closed, and
\* at most once in all; close on a closed endpoint changes nothing; a closed
\* endpoint stays closed and is never started.
C38_EndpointStateMachine ==
    [][\A e \in 1..2 :
          /\ send(e, Len(transports[e].sent) + 1) =>
                IF transports[e].isStarted /\ ~transports[e].isClosed /\ transports[e].peer # 0
                THEN transports'[e].thrown = "" /\ Len(immediates') = Len(immediates) + 1
                ELSE /\ transports'[e].thrown # "" /\ immediates' = immediates
                     /\ transports' = [transports EXCEPT ![e].thrown = transports'[e].thrown]
          /\ start(e) /\ transports'[e].thrown = "" =>
                ~transports[e].isStarted /\ ~transports[e].isClosed /\ transports'[e].isStarted
          /\ transports'[e].starts <= 1
          /\ close(e) /\ transports[e].isClosed =>
                /\ immediates' = immediates
                /\ transports' = [transports EXCEPT ![e].thrown = ""]
          /\ transports[e].isClosed => transports'[e].isClosed
          /\ transports[e].isClosed /\ ~transports[e].isStarted => ~transports'[e].isStarted]_vars

\* endpoint 1 was started, delivered a message to endpoint 2 and was closed;
\* after that a call on it threw "Transport is closed"
C38_Witness ==
    /\ transports[1].isClosed /\ transports[1].starts = 1
    /\ transports[1].thrown = "Transport is closed"
    /\ transports[2].received = <<1>>

(***************************************************************************)
(* The in-memory server (InMemoryFileCoolServer).  connect() is cut at its *)
(* two awaits: of initializationPromise and of the two SDK connect calls.  *)
(***************************************************************************)

\* setupServer, given how fetchToolsList ended: its body is inside a try
\* whose catch logs the error, so the promise it returns is resolved either
\* way
setupServer(fetched) ==
    LET body == IF fetched = "ok" THEN "resolved" ELSE "rejected"
    IN  IF body = "rejected" THEN "resolved" ELSE body

\* initializeServer ends: ready is set from how setupServer ended
initializeServer(fetched) ==
    /\ inMemoryServer.initialization = "pending"
    /\ inMemoryServer' = [inMemoryServer EXCEPT
          !.fetched = fetched,
          !.ready = (setupServer(fetched) = "resolved"),
          !.initialization = "done"]
    /\ UNCHANGED <<connections, isConnecting, fileWatchers, memVars, lastCall, mcpSettings, timers,
                   clientVars, proc, transports, immediates, condensed>>

\* connect() called by c: the test of this.client, then the await of
\* initializationPromise, which yields even when the promise is settled
ServerConnect(c) ==
    /\ inMemoryServer.call[c].pc = "idle"
    /\ inMemoryServer' =
          IF inMemoryServer.client # 0
          THEN [inMemoryServer EXCEPT !.call[c] = [pc |-> "thrown", result |-> "Server already connected"]]
          ELSE [inMemoryServer EXCEPT !.call[c].pc = "awaiting"]
    /\ UNCHANGED <<connections, isConnecting, fileWatchers, memVars, lastCall, mcpSettings, timers,
                   clientVars, proc, transports, immediates, condensed>>

\* connect() of c resumes after initializationPromise: the test of ready,
\* then a new pair of transports and a new Client are stored
ConnectResumed(c) ==
    /\ inMemoryServer.call[c].pc = "awaiting"
    /\ inMemoryServer.initialization = "done"
    /\ inMemoryServer' =
          IF ~inMemoryServer.ready
          THEN [inMemoryServer EXCEPT
                   !.call[c] = [pc |-> "thrown",
                                result |-> "Server initialization failed - cannot connect"]]
          ELSE [inMemoryServer EXCEPT
                   !.pairs = @ + 1,
                   !.client = inMemoryServer.pairs + 1,
                   !.call[c].pc = "connecting"]
    /\ UNCHANGED <<connections, isConnecting, fileWatchers, memVars, lastCall, mcpSettings, timers,
                   clientVars, proc, transports, immediates, condensed>>

\* the two connect calls of the SDK end for c: connect() returns this.client
\* as it is now, or throws what they threw
ConnectReturned(c, ok) ==
    /\ inMemoryServer.call[c].pc = "connecting"
    /\ inMemoryServer' =
          IF ok
          THEN [inMemoryServer EXCEPT !.call[c] = [pc |-> "returned", result |-> "client"]]
          ELSE [inMemoryServer EXCEPT !.call[c] = [pc |-> "thrown", result |-> "connect failed"]]
    /\ UNCHANGED <<connections, isConnecting, fileWatchers, memVars, lastCall, mcpSettings, timers,
                   clientVars, proc, transports, immediates, condensed>>

NextServer ==
    \/ \E fetched \in {"ok", "failed"} : initializeServer(fetched)
    \/ \E c \in 1..MaxCallers : ServerConnect(c)
    \/ \E c \in 1..MaxCallers : ConnectResumed(c)
    \/ \E c \in 1..MaxCallers, ok \in BOOLEAN : ConnectReturned(c, ok)

SpecServer == Init /\ [][NextServer]_vars

\* C39 (the in-memory server connects at most once): the server makes at
\* most one client and pair of transports; at most one call of connect() gets
\* past the test of this.client, the others throw "Server already connected";
\* no call of connect() gets a client when the fetch of the tool list failed.
C39_ConnectsAtMostOnce ==
    /\ inMemoryServer.pairs <= 1
    /\ Cardinality({c \in 1..MaxCallers :
                       inMemoryServer.call[c].pc \in {"awaiting", "connecting", "returned"}}) <= 1
    /\ \A c \in 1..MaxCallers :
          inMemoryServer.call[c].pc \in {"connecting", "returned"} => inMemoryServer.fetched = "ok"

(***************************************************************************)
(* Condensing a conversation (summarizeConversation).  A message is a      *)
(* record of role, content, ts and isSummary; the stream of createMessage  *)
(* is the text of its chunks and its last usage chunk, or an exception;    *)
(* an ApiHandler is "valid" when it has a createMessage function.          *)
(***************************************************************************)

N_MESSAGES_TO_KEEP == 1

\* the longest conversation given to summarizeConversation
MaxMessages == 4

getMessagesSinceLastSummary(messages) ==
    LET summaries == {i \in DOMAIN messages : messages[i].isSummary}
    IN  IF summaries = {} THEN messages
        ELSE LET lastSummaryIndex == CHOOSE i \in summaries : \A j \in summaries : j <= i
                 messagesSinceSummary == SubSeq(messages, lastSummaryIndex, Len(messages))
             IN  IF messagesSinceSummary[1].role # "user"
                 THEN IF messages[1].role = "user"
                      THEN <<messages[1]>> \o messagesSinceSummary
                      ELSE <<[role |-> "user", content |-> "Please continue from the following summary:",
                              ts |-> messages[1].ts - 1, isSummary |-> FALSE]>>
                           \o messagesSinceSummary
                 ELSE messagesSinceSummary

\* summarizeConversation that gives back the new messages when the context
\* grew: a faulty variant
summarizeConversationGrown(messages, apiHandler, prevContextTokens, condensingApiHandler, stream, counted) ==
    LET response == [messages |-> messages, cost |-> 0, summary |-> ""]
        messagesToSummarize ==
            getMessagesSinceLastSummary(SubSeq(messages, 1, Len(messages) - N_MESSAGES_TO_KEEP))
        keepMessages == SubSeq(messages, Len(messages) - N_MESSAGES_TO_KEEP + 1, Len(messages))
        RECURSIVE trim(_)
        trim(str) == IF str = "" THEN ""
                     ELSE IF SubSeq(str, 1, 1) = " " THEN trim(SubSeq(str, 2, Len(str)))
                     ELSE IF SubSeq(str, Len(str), Len(str)) = " " THEN trim(SubSeq(str, 1, Len(str) - 1))
                     ELSE str
        summary == trim(stream.text)
        summaryMessage == [role |-> "assistant", content |-> summary, ts |-> keepMessages[1].ts,
                           isSummary |-> TRUE]
        newContextTokens == stream.outputTokens + counted
    IN  IF Len(messagesToSummarize) <= 1
        THEN [error |-> IF Len(messages) <= N_MESSAGES_TO_KEEP + 1
                        THEN "condense_not_enough_messages" ELSE "condensed_recently"] @@ response
        ELSE IF \E i \in DOMAIN keepMessages : keepMessages[i].isSummary
        THEN [error |-> "condensed_recently"] @@ response
        ELSE IF condensingApiHandler # "valid" /\ apiHandler # "valid"
        THEN [error |-> "condense_handler_invalid"] @@ response
        ELSE IF stream.throws THEN [thrown |-> "createMessage"]
        ELSE IF Len(summary) = 0
        THEN [error |-> "condense_failed"] @@ [response EXCEPT !.cost = stream.totalCost]
        ELSE IF counted < 0 THEN [thrown |-> "countTokens"]
        ELSE [messages |-> <<messages[1], summaryMessage>> \o keepMessages,
              summary |-> summary, cost |-> stream.totalCost, newContextTokens |-> newContextTokens]

\* the response of summarizeConversation, or [thrown |-> ...] when the stream
\* or countTokens (counted < 0) throws; systemPrompt, taskId and the prompt
\* only reach the telemetry, the request and countTokens
summarizeConversation(messages, apiHandler, prevContextTokens, condensingApiHandler, stream, counted) ==
    LET response == [messages |-> messages, cost |-> 0, summary |-> ""]
        messagesToSummarize ==
            getMessagesSinceLastSummary(SubSeq(messages, 1, Len(messages) - N_MESSAGES_TO_KEEP))
        keepMessages == SubSeq(messages, Len(messages) - N_MESSAGES_TO_KEEP + 1, Len(messages))
        RECURSIVE trim(_)
        trim(str) == IF str = "" THEN ""
                     ELSE IF SubSeq(str, 1, 1) = " " THEN trim(SubSeq(str, 2, Len(str)))
                     ELSE IF SubSeq(str, Len(str), Len(str)) = " " THEN trim(SubSeq(str, 1, Len(str) - 1))
                     ELSE str
        summary == trim(stream.text)
        summaryMessage == [role |-> "assistant", content |-> summary, ts |-> keepMessages[1].ts,
                           isSummary |-> TRUE]
        newContextTokens == stream.outputTokens + counted
    IN  IF Len(messagesToSummarize) <= 1
        THEN [error |-> IF Len(messages) <= N_MESSAGES_TO_KEEP + 1
                        THEN "condense_not_enough_messages" ELSE "condensed_recently"] @@ response
        ELSE IF \E i \in DOMAIN keepMessages : keepMessages[i].isSummary
        THEN [error |-> "condensed_recently"] @@ response
        ELSE IF condensingApiHandler # "valid" /\ apiHandler # "valid"
        THEN [error |-> "condense_handler_invalid"] @@ response
        ELSE IF stream.throws THEN [thrown |-> "createMessage"]
        ELSE IF Len(summary) = 0
        THEN [error |-> "condense_failed"] @@ [response EXCEPT !.cost = stream.totalCost]
        ELSE IF counted < 0 THEN [thrown |-> "countTokens"]
        ELSE IF newContextTokens >= prevContextTokens
        THEN [error |-> "condense_context_grew"] @@ [response EXCEPT !.cost = stream.totalCost]
        ELSE [messages |-> <<messages[1], summaryMessage>> \o keepMessages,
              summary |-> summary, cost |-> stream.totalCost, newContextTokens |-> newContextTokens]

\* one call of summarizeConversation, on a conversation of at most
\* MaxMessages messages whose i-th message has ts i
NextCondense ==
    /\ ~condensed.called
    /\ \E n \in 0..MaxMessages :
       \E roles \in [1..n -> {"user", "assistant"}], marks \in [1..n -> BOOLEAN] :
       \E apiHandler \in {"valid", "invalid"}, condensingApiHandler \in {"none", "valid", "invalid"} :
       \E prevContextTokens \in {4, 5}, counted \in {-1, 1, 4} :
       \E text \in {"", " ", "s", " s "}, totalCost \in {0, 2}, outputTokens \in {0, 3}, throws \in BOOLEAN :
          LET messages == [i \in 1..n |-> [role |-> roles[i], content |-> "m", ts |-> i,
                                           isSummary |-> marks[i]]]
              stream == [text |-> text, totalCost |-> totalCost, outputTokens |-> outputTokens,
                         throws |-> throws]
          IN  condensed' = [called |-> TRUE, messages |-> messages, apiHandler |-> apiHandler,
                            condensingApiHandler |-> condensingApiHandler,
                            prevContextTokens |-> prevContextTokens, stream |-> stream,
                            counted |-> counted,
                            response |-> summarizeConversation(messages, apiHandler, prevContextTokens,
                                                               condensingApiHandler, stream, counted)]
    /\ UNCHANGED <<connections, isConnecting, fileWatchers, memVars, lastCall, mcpSettings, timers,
                   clientVars, proc, transports, immediates, inMemoryServer>>

SpecCondense == Init /\ [][NextCondense]_vars

\* C40 (the response of condensing): a response has an error exactly when
\* the call failed, that is when at most one message since the last summary
\* is left to summarise, a kept message is a summary, no handler can create a
\* message, the summary is empty or the new context is not smaller than the
\* previous one; a failed call gives back the messages it was given; a
\* successful one gives back the first message, the summary message and the
\* last N_MESSAGES_TO_KEEP messages, with newContextTokens below
\* prevContextTokens.
C40_ErrorIffFailed ==
    condensed.called /\ "thrown" \notin DOMAIN condensed.response =>
        LET msgs == condensed.messages
            r == condensed.response
            kept == SubSeq(msgs, Len(msgs) - N_MESSAGES_TO_KEEP + 1, Len(msgs))
            tooFew == Len(getMessagesSinceLastSummary(
                              SubSeq(msgs, 1, Len(msgs) - N_MESSAGES_TO_KEEP))) <= 1
            keptSummary == \E i \in DOMAIN kept : kept[i].isSummary
            noHandler == condensed.apiHandler # "valid" /\ condensed.condensingApiHandler # "valid"
            emptySummary == condensed.stream.text \in {"", " "}
            grew == condensed.stream.outputTokens + condensed.counted >= condensed.prevContextTokens
            failed == tooFew \/ keptSummary \/ noHandler \/ emptySummary \/ grew
        IN  /\ "error" \in DOMAIN r <=> failed
            /\ failed => r.messages = msgs /\ "newContextTokens" \notin DOMAIN r
            /\ ~failed =>
                  /\ Len(r.messages) = N_MESSAGES_TO_KEEP + 2
                  /\ r.messages[1] = msgs[1]
                  /\ r.messages[2] = [role |-> "assistant", content |-> "s", ts |-> kept[1].ts,
                                      isSummary |-> TRUE]
                  /\ SubSeq(r.messages, 3, Len(r.messages)) = kept
                  /\ r.summary = "s"
                  /\ r.newContextTokens < condensed.prevContextTokens

\* a conversation of four messages with an earlier summary was condensed, the
\* text of the stream was trimmed, and the new context is smaller
C40_Witness ==
    /\ condensed.called
    /\ Len(condensed.messages) = 4 /\ condensed.messages[2].isSummary
    /\ condensed.stream.text = " s "
    /\ "newContextTokens" \in DOMAIN condensed.response
    /\ condensed.response.newContextTokens = 4
    /\ Len(condensed.response.messages) = 3
====
